---- MODULE Spec2Model ----
(***************************************************************************)
(* A model of the wiki's link-graph builder (lib/graph-builder), the       *)
(* research cache (lib/tavily-cache.ts), the rate limiter and the error    *)
(* handler (lib/api-error-handler.ts), the query router (lib/ai-router.ts),*)
(* the prompt cache (lib/prompt-cache.ts), the cost monitor                *)
(* (lib/cost-monitor), the graph route (app/api/graph/route.ts), the chat  *)
(* route (app/api/ai/chat/route.ts) and the cached search                  *)
(* (searchWithTavily of lib/tavily-cache.ts).                              *)
(*                                                                         *)
(* JavaScript strings on which the code does character work are sequences  *)
(* of one-character strings; a JavaScript Map is a sequence of [k, v]      *)
(* records in insertion order and a JavaScript Set a duplicate-free        *)
(* sequence in insertion order.                                            *)
(***************************************************************************)
EXTENDS Integers, Sequences, FiniteSets, TLC

VARIABLES
    gpc,            \* buildLinkGraph: position of the build
    nread,          \* buildLinkGraph: directory entries visited so far
    pages,          \* LinkGraph.pages        Map<slug, WikiPage>
    forwardLinks,   \* LinkGraph.forwardLinks Map<slug, Set<slug>>
    backlinks,      \* LinkGraph.backlinks    Map<slug, Set<slug>>
    view,           \* last derived-view call: [op, slug, result]
    now,            \* Date.now()
    cache,          \* tavily-cache: Map<cacheKey, CacheEntry>
    ret,            \* tavily-cache: the last call: its arguments, the time, the
                    \* cache it found (field cache) and what it returned
    requestCounts,  \* api-error-handler: Map<identifier, {count, resetTime}>
    calls,          \* per endpoint and instant, the requests that reached
                    \* checkRateLimit (made) and those it let through (granted)
    resp,           \* the last request: its endpoint, time and outcome
    routed,         \* ai-router: the last call, its input and what it returned
    built,          \* prompt-cache: the last buildCachedMessages call and the
                    \* messages it returned
    costNow,        \* cost monitor: Date.now(), in whole seconds
    costLogs,       \* cost monitor: APICallLog[]
    alerts,         \* cost monitor: the budget alerts emitted, in order
    costed,         \* cost monitor: the last call, its arguments, the log it
                    \* found (field logs) and what it returned
    response,       \* GET /api/graph: the last request and its NextResponse
    chat,           \* POST /api/ai/chat: the request being handled, or the
                    \* last one and its NextResponse
    searches,       \* searchWithTavily: the calls made, each with its
                    \* position and, once it has returned, its outcome
    requests        \* the requests sent to api.tavily.com, in order

graphVars == <<gpc, nread, pages, forwardLinks, backlinks, view>>
cacheVars == <<now, cache, ret>>
rateVars == <<requestCounts, calls, resp>>
routerVars == <<routed>>
promptVars == <<built>>
costVars == <<costNow, costLogs, alerts, costed>>
routeVars == <<response>>
handlerVars == <<chat>>
searchVars == <<searches, requests>>

vars == <<graphVars, cacheVars, rateVars, routerVars, promptVars, costVars, routeVars,
          handlerVars, searchVars>>

\* What the actions of one part leave alone.
exceptGraph ==
    <<cacheVars, rateVars, routerVars, promptVars, costVars, routeVars,
      handlerVars, searchVars>>
exceptCache ==
    <<graphVars, rateVars, routerVars, promptVars, costVars, routeVars,
      handlerVars, searchVars>>
exceptRate ==
    <<cache, ret, graphVars, routerVars, promptVars, costVars, routeVars,
      handlerVars, searchVars>>
exceptRouter ==
    <<graphVars, cacheVars, rateVars, promptVars, costVars, routeVars,
      handlerVars, searchVars>>
exceptPrompt ==
    <<graphVars, cacheVars, rateVars, routerVars, costVars, routeVars,
      handlerVars, searchVars>>
exceptCost ==
    <<graphVars, cacheVars, rateVars, routerVars, promptVars, routeVars,
      handlerVars, searchVars>>
exceptRoute ==
    <<graphVars, cacheVars, routerVars, promptVars, costVars,
      handlerVars, searchVars>>

----------------------------------------------------------------------------
(* JavaScript Map and Set                                                  *)

\* The value of an absent optional field.
Undefined == "<undefined>"

Range(s) == {s[i] : i \in 1..Len(s)}

MapKeys(m) == {m[i].k : i \in 1..Len(m)}

MapHas(m, key) == key \in MapKeys(m)

MapGet(m, key) == m[CHOOSE i \in 1..Len(m) : m[i].k = key].v

\* Map.prototype.set: an existing key keeps its place, a new key goes last.
MapSet(m, key, val) ==
    IF MapHas(m, key)
    THEN [i \in 1..Len(m) |-> IF m[i].k = key THEN [k |-> key, v |-> val] ELSE m[i]]
    ELSE Append(m, [k |-> key, v |-> val])

MapDelete(m, key) == SelectSeq(m, LAMBDA e : e.k # key)

\* new Set(list): the members in order of first occurrence.
RECURSIVE SetFromList(_)
SetFromList(list) ==
    IF list = <<>> THEN <<>>
    ELSE LET init == SetFromList(SubSeq(list, 1, Len(list) - 1))
             x    == list[Len(list)]
         IN  IF x \in Range(init) THEN init ELSE Append(init, x)

\* Set.prototype.add
SetAdd(s, x) == IF x \in Range(s) THEN s ELSE Append(s, x)

exceptHandler ==
    <<graphVars, cacheVars, routerVars, promptVars, routeVars, searchVars, costNow>>
exceptSearch ==
    <<graphVars, rateVars, routerVars, promptVars, routeVars, handlerVars>>

----------------------------------------------------------------------------
(* The state of each part before it is used                                *)

NoView == [op |-> "none", slug |-> "", result |-> <<>>]

GraphIdle ==
    /\ gpc = "start"
    /\ nread = 0
    /\ pages = <<>>
    /\ forwardLinks = <<>>
    /\ backlinks = <<>>
    /\ view = NoView

NoRet == [op |-> "none"]

CacheIdle ==
    /\ now = 0
    /\ cache = <<>>
    /\ ret = NoRet

\* windowMs, as every route passes it to checkRateLimit.
WINDOW_MS == 60000

\* The instants at which requests arrive: the first window opens at 0, its
\* resetTime is passed at windowMs + 1, and the limiter keeps it until
\* resetTime < now - windowMs.
RateInstants == {0, WINDOW_MS + 1, 2 * WINDOW_MS, 2 * WINDOW_MS + 1}

Endpoints == {"chat", "graph", "research"}

NoResp == [endpoint |-> "none"]

RateIdle ==
    /\ requestCounts = <<>>
    /\ calls = [e \in Endpoints |-> [t \in RateInstants |-> [made |-> 0, granted |-> 0]]]
    /\ resp = NoResp

NoRouted == [op |-> "none"]

RouterIdle == routed = NoRouted

NoBuilt == [op |-> "none"]

PromptIdle == built = NoBuilt

NoCosted == [op |-> "none"]

CostIdle ==
    /\ costNow = 0
    /\ costLogs = <<>>
    /\ alerts = <<>>
    /\ costed = NoCosted

NoResponse == [op |-> "none"]

RouteIdle == response = NoResponse

NoChat == [pc |-> "idle"]

HandlerIdle == chat = NoChat

SearchIdle ==
    /\ searches = <<>>
    /\ requests = <<>>

\* The parts other than the link graph and the research cache.
RestIdle ==
    /\ RateIdle
    /\ RouterIdle
    /\ PromptIdle
    /\ CostIdle
    /\ RouteIdle
    /\ HandlerIdle
    /\ SearchIdle

Idle == GraphIdle /\ CacheIdle /\ RestIdle

----------------------------------------------------------------------------
(* JavaScript strings, as sequences of characters                          *)

UpperCase ==
    <<"A", "B", "C", "D", "E", "F", "G", "H", "I", "J", "K", "L", "M",
      "N", "O", "P", "Q", "R", "S", "T", "U", "V", "W", "X", "Y", "Z">>

LowerCase ==
    <<"a", "b", "c", "d", "e", "f", "g", "h", "i", "j", "k", "l", "m",
      "n", "o", "p", "q", "r", "s", "t", "u", "v", "w", "x", "y", "z">>

Digits == {"0", "1", "2", "3", "4", "5", "6", "7", "8", "9"}

\* The regular expression class \s, for the characters the inputs use.
IsWhitespace(c) == c \in {" ", "\t", "\n"}

\* The regular expression class \w.
IsWordChar(c) == c \in Range(UpperCase) \cup Range(LowerCase) \cup Digits \cup {"_"}

LowerChar(c) ==
    IF c \in Range(UpperCase)
    THEN LowerCase[CHOOSE i \in 1..Len(UpperCase) : UpperCase[i] = c]
    ELSE c

\* String.prototype.toLowerCase
toLowerCase(s) == [i \in 1..Len(s) |-> LowerChar(s[i])]

\* String.prototype.trim
RECURSIVE trimStart(_)
trimStart(s) ==
    IF s # <<>> /\ IsWhitespace(Head(s)) THEN trimStart(Tail(s)) ELSE s

RECURSIVE trimEnd(_)
trimEnd(s) ==
    IF s # <<>> /\ IsWhitespace(s[Len(s)])
    THEN trimEnd(SubSeq(s, 1, Len(s) - 1))
    ELSE s

trim(s) == trimEnd(trimStart(s))

\* String.prototype.split(/\s+/): the pieces between maximal runs of
\* whitespace; a leading or trailing run leaves an empty piece, and the
\* empty string splits into one empty piece.
RECURSIVE SplitFrom(_, _, _, _)
SplitFrom(s, i, cur, acc) ==
    IF i > Len(s) THEN Append(acc, cur)
    ELSE IF IsWhitespace(s[i])
         THEN IF i > 1 /\ IsWhitespace(s[i - 1])
              THEN SplitFrom(s, i + 1, cur, acc)
              ELSE SplitFrom(s, i + 1, <<>>, Append(acc, cur))
         ELSE SplitFrom(s, i + 1, Append(cur, s[i]), acc)

splitWhitespace(s) == SplitFrom(s, 1, <<>>, <<>>)

----------------------------------------------------------------------------
(* lib/tavily-cache.ts: the research cache                                 *)

CACHE_TTL == 604800000

\* SIMILARITY_THRESHOLD = 0.85, in hundredths.
SIMILARITY_THRESHOLD == 85

MaxEntries == 2

\* "Byzantine saloi"
QSaloi ==
    <<"B", "y", "z", "a", "n", "t", "i", "n", "e", " ", "s", "a", "l",
    "o", "i">>

\* "byzantine  SALOI"
QSaloiVariant ==
    <<"b", "y", "z", "a", "n", "t", "i", "n", "e", " ", " ", "S", "A",
    "L", "O", "I">>

\* " Byzantine Saloi "
QSaloiPadded ==
    <<" ", "B", "y", "z", "a", "n", "t", "i", "n", "e", " ", "S", "a",
    "l", "o", "i", " ">>

\* "Byzantine saloi holy fools tradition"
QTradition ==
    <<"B", "y", "z", "a", "n", "t", "i", "n", "e", " ", "s", "a", "l",
    "o", "i", " ", "h", "o", "l", "y", " ", "f", "o", "o", "l", "s", " ",
    "t", "r", "a", "d", "i", "t", "i", "o", "n">>

\* "Byzantine holy fools"
QHolyFools ==
    <<"B", "y", "z", "a", "n", "t", "i", "n", "e", " ", "h", "o", "l",
    "y", " ", "f", "o", "o", "l", "s">>

\* "a b c d e f"
QSix ==
    <<"a", " ", "b", " ", "c", " ", "d", " ", "e", " ", "f">>

\* "a b c d e f g"
QSeven ==
    <<"a", " ", "b", " ", "c", " ", "d", " ", "e", " ", "f", " ", "g">>

\* "a b c d e"
QFive ==
    <<"a", " ", "b", " ", "c", " ", "d", " ", "e">>

\* Array.prototype.sort on domain names, which are compared as strings.
DomainOrder == <<"a.org", "b.org">>

DomainRank(d) == CHOOSE i \in 1..Len(DomainOrder) : DomainOrder[i] = d

RECURSIVE sortDomains(_)
sortDomains(list) ==
    IF list = <<>> THEN <<>>
    ELSE LET m    == CHOOSE i \in 1..Len(list) :
                         \A j \in 1..Len(list) :
                             DomainRank(list[i]) <= DomainRank(list[j])
             rest == [j \in 1..(Len(list) - 1) |-> IF j < m THEN list[j] ELSE list[j + 1]]
         IN  <<list[m]>> \o sortDomains(rest)

\* TavilySearchParams. maxResults 0 stands for an absent (or zero) value and
\* an empty domain list for an absent (or empty) one: `||` treats them alike.
Params(q, m, d, inc, exc) ==
    [query |-> q, maxResults |-> m, searchDepth |-> d,
     includeDomains |-> inc, excludeDomains |-> exc]

Plain(q) == Params(q, 0, Undefined, <<>>, <<>>)

ParamInputs ==
    {Plain(QSaloi), Plain(QSaloiVariant), Plain(QTradition), Plain(QHolyFools),
     Plain(QSix), Plain(QSeven), Plain(QSaloiPadded),
     Params(QSaloi, 10, "advanced", <<"b.org", "a.org">>, <<>>)}

\* String.prototype.join(' ')
RECURSIVE JoinWords(_)
JoinWords(pieces) ==
    IF pieces = <<>> THEN <<>>
    ELSE IF Len(pieces) = 1 THEN pieces[1]
    ELSE pieces[1] \o <<" ">> \o JoinWords(Tail(pieces))

\* A key whose query also has its inner whitespace runs collapsed.
getCacheKeyCollapsing(params) ==
    [query |-> JoinWords(splitWhitespace(trim(toLowerCase(params.query)))),
     maxResults |-> IF params.maxResults = 0 THEN 5 ELSE params.maxResults,
     searchDepth |-> IF params.searchDepth = Undefined THEN "basic"
                     ELSE params.searchDepth,
     includeDomains |-> sortDomains(params.includeDomains),
     excludeDomains |-> sortDomains(params.excludeDomains)]

\* The object getCacheKey normalises the parameters to. The cache key is the
\* SHA-256 digest of its JSON text: one key per normalised object.
getCacheKey(params) ==
    [query |-> trim(toLowerCase(params.query)),
     maxResults |-> IF params.maxResults = 0 THEN 5 ELSE params.maxResults,
     searchDepth |-> IF params.searchDepth = Undefined THEN "basic"
                     ELSE params.searchDepth,
     includeDomains |-> sortDomains(params.includeDomains),
     excludeDomains |-> sortDomains(params.excludeDomains)]

\* The word sets calculateSimilarity compares.
Words(query) == Range(splitWhitespace(toLowerCase(query)))

\* A similarity test that accepts from 0.6 on.
IsSimilarLoose(query1, query2) ==
    LET words1 == Words(query1)
        words2 == Words(query2)
    IN  Cardinality(words1 \cap words2) * 100
            >= 60 * Cardinality(words1 \cup words2)

\* calculateSimilarity(query1, query2) >= SIMILARITY_THRESHOLD, the Jaccard
\* quotient intersection.size / union.size compared as a fraction.
IsSimilar(query1, query2) ==
    LET words1 == Words(query1)
        words2 == Words(query2)
    IN  Cardinality(words1 \cap words2) * 100
            >= SIMILARITY_THRESHOLD * Cardinality(words1 \cup words2)

\* The values of getCacheKey and of the similarity test over the inputs,
\* evaluated once.
QueryInputs == {params.query : params \in ParamInputs}

CacheKeyOf == [params \in ParamInputs |-> getCacheKey(params)] @@ <<>>

SimilarPairs ==
    {pair : pair \in {p \in QueryInputs \X QueryInputs : IsSimilar(p[1], p[2])}}

\* A scan that skips expired entries without deleting them.
RECURSIVE ScanFromNoEvict(_, _, _, _)
ScanFromNoEvict(params, entries, i, t) ==
    IF i > Len(entries) THEN [found |-> FALSE, cache |-> entries]
    ELSE IF entries[i].v.expiresAt < t
         THEN ScanFromNoEvict(params, entries, i + 1, t)
         ELSE IF <<params.query, entries[i].v.data.query>> \in SimilarPairs
              THEN [found |-> TRUE, key |-> entries[i].k, entry |-> entries[i].v,
                    cache |-> entries]
              ELSE ScanFromNoEvict(params, entries, i + 1, t)

\* findSimilarQuery: the scan of cache.entries() from position i on, at time
\* t. Gives the entry returned (with its key), if any, and the cache the scan
\* leaves behind.
RECURSIVE ScanFrom(_, _, _, _)
ScanFrom(params, entries, i, t) ==
    IF i > Len(entries) THEN [found |-> FALSE, cache |-> entries]
    ELSE IF entries[i].v.expiresAt < t
         THEN ScanFrom(params, MapDelete(entries, entries[i].k), i, t)
         ELSE IF <<params.query, entries[i].v.data.query>> \in SimilarPairs
              THEN [found |-> TRUE, key |-> entries[i].k, entry |-> entries[i].v,
                    cache |-> entries]
              ELSE ScanFrom(params, entries, i + 1, t)

findSimilarQuery(params, entries, t) == ScanFrom(params, entries, 1, t)

\* A lookup whose exact-match hit marks the stored result as cached, in
\* place of returning a copy.
getCachedResultInPlace(params, entries, t) ==
    LET cacheKey == CacheKeyOf[params]
    IN  IF MapHas(entries, cacheKey) /\ MapGet(entries, cacheKey).expiresAt > t
        THEN [path |-> "exact", key |-> cacheKey,
              value |-> [MapGet(entries, cacheKey).data EXCEPT !.cached = TRUE],
              cache |-> MapSet(entries, cacheKey,
                               [MapGet(entries, cacheKey)
                                   EXCEPT !.data.cached = TRUE])]
        ELSE LET scan == findSimilarQuery(params, entries, t)
             IN  IF scan.found
                 THEN [path |-> "similar", key |-> scan.key,
                       value |-> [scan.entry.data EXCEPT !.cached = TRUE],
                       cache |-> scan.cache]
                 ELSE [path |-> "null", cache |-> scan.cache]

\* getCachedResult(params) at time t: the return statement taken ("exact",
\* "similar" or "null"), the value returned and the key of the entry it comes
\* from, and the cache the call leaves.
getCachedResult(params, entries, t) ==
    LET cacheKey == CacheKeyOf[params]
    IN  IF MapHas(entries, cacheKey) /\ MapGet(entries, cacheKey).expiresAt > t
        THEN [path |-> "exact", key |-> cacheKey,
              value |-> [MapGet(entries, cacheKey).data EXCEPT !.cached = TRUE],
              cache |-> entries]
        ELSE LET scan == findSimilarQuery(params, entries, t)
             IN  IF scan.found
                 THEN [path |-> "similar", key |-> scan.key,
                       value |-> [scan.entry.data EXCEPT !.cached = TRUE],
                       cache |-> scan.cache]
                 ELSE [path |-> "null", cache |-> scan.cache]

\* The TavilySearchResult searchWithTavily builds from a response.
SearchResult(params, t) ==
    [query |-> params.query, cached |-> FALSE, timestamp |-> t]

\* A store that keeps an entry already held under the key.
setCachedResultKeepExisting(params, result, entries, t) ==
    IF MapHas(entries, CacheKeyOf[params]) THEN entries
    ELSE Append(entries, [k |-> CacheKeyOf[params],
                          v |-> [data |-> result, expiresAt |-> t + CACHE_TTL]])

\* setCachedResult(params, result) at time t.
setCachedResult(params, result, entries, t) ==
    MapSet(entries, CacheKeyOf[params], [data |-> result, expiresAt |-> t + CACHE_TTL])

\* The instants at which the cache is used: an entry stored at 0 is live
\* before CACHE_TTL, has expiresAt = now at CACHE_TTL and is expired after.
Instants == {0, CACHE_TTL, CACHE_TTL + 1}

\* Time passes between two calls.
Tick ==
    /\ \E t \in Instants : t > now /\ now' = t
    /\ UNCHANGED <<cache, ret, exceptCache>>

CallSetCachedResult ==
    /\ \E params \in ParamInputs :
          /\ MapHas(cache, CacheKeyOf[params]) \/ Len(cache) < MaxEntries
          /\ cache' = setCachedResult(params, SearchResult(params, now), cache, now)
          /\ ret' = [op |-> "set", params |-> params, at |-> now, cache |-> cache]
    /\ UNCHANGED <<now, exceptCache>>

CallGetCachedResult ==
    /\ \E params \in ParamInputs :
          LET r == getCachedResult(params, cache, now)
          IN  /\ cache' = r.cache
              /\ ret' = [r EXCEPT !.cache = cache] @@
                         [op |-> "get", params |-> params, at |-> now]
    /\ UNCHANGED <<now, exceptCache>>

CacheInit == Idle

CacheNext == Tick \/ CallSetCachedResult \/ CallGetCachedResult

SpecCache == CacheInit /\ [][CacheNext]_vars

----------------------------------------------------------------------------
(* lib/graph-builder: buildLinkGraph and the derived views                 *)

MaxFiles == 2

Slugs == {"a", "b"}

\* A link target that is the slug of no file.
Targets == Slugs \cup {"ghost"}

\* What one directory entry can hold: the frontmatter lists and the list
\* extractWikiLinks returns for the body.
RelatedInputs == {<<>>, <<"b">>, <<"a", "ghost">>}
SeeAlsoInputs == {<<>>, <<"b", "a">>}
ContentInputs == {<<>>, <<"a">>, <<"ghost", "b">>}
CategoryInputs == {Undefined, "", "saints"}

FileInputs ==
    [md : {TRUE}, slug : Slugs, category : CategoryInputs,
     related : RelatedInputs, seeAlso : SeeAlsoInputs, content : ContentInputs]
    \cup
    [md : {FALSE}, slug : {"a"}, category : {Undefined},
     related : {<<>>}, seeAlso : {<<>>}, content : {<<>>}]

\* The WikiPage record pages.set stores (frontmatter.related || []).
WikiPage(file) ==
    [slug |-> file.slug, category |-> file.category,
     related |-> file.related, seeAlso |-> file.seeAlso]

\* allLinks: new Set([...contentLinks, ...related, ...seeAlso])
AllLinks(file) == SetFromList(file.content \o file.related \o file.seeAlso)

\* A second pass that leaves out a page's link to itself.
RECURSIVE AddBacklinksNoSelf(_, _, _)
AddBacklinksNoSelf(bl, fromSlug, toSlugs) ==
    IF toSlugs = <<>> THEN bl
    ELSE LET toSlug == Head(toSlugs)
             bl1    == IF MapHas(bl, toSlug) THEN bl ELSE MapSet(bl, toSlug, <<>>)
             bl2    == IF toSlug = fromSlug THEN bl
                       ELSE MapSet(bl1, toSlug, SetAdd(MapGet(bl1, toSlug), fromSlug))
         IN  AddBacklinksNoSelf(bl2, fromSlug, Tail(toSlugs))

\* Second pass, the inner loop over one source's targets.
RECURSIVE AddBacklinks(_, _, _)
AddBacklinks(bl, fromSlug, toSlugs) ==
    IF toSlugs = <<>> THEN bl
    ELSE LET toSlug == Head(toSlugs)
             bl1    == IF MapHas(bl, toSlug) THEN bl ELSE MapSet(bl, toSlug, <<>>)
             bl2    == MapSet(bl1, toSlug, SetAdd(MapGet(bl1, toSlug), fromSlug))
         IN  AddBacklinks(bl2, fromSlug, Tail(toSlugs))

\* A second pass that gives every source an entry of its own before its
\* targets are visited.
RECURSIVE SecondPassEverySource(_, _)
SecondPassEverySource(bl, fl) ==
    IF fl = <<>> THEN bl
    ELSE LET bl1 == IF MapHas(bl, Head(fl).k) THEN bl
                    ELSE MapSet(bl, Head(fl).k, <<>>)
         IN  SecondPassEverySource(AddBacklinks(bl1, Head(fl).k, Head(fl).v),
                                   Tail(fl))

\* Second pass, the outer loop over forwardLinks.entries().
RECURSIVE SecondPass(_, _)
SecondPass(bl, fl) ==
    IF fl = <<>> THEN bl
    ELSE SecondPass(AddBacklinks(bl, Head(fl).k, Head(fl).v), Tail(fl))

\* A resolution that keeps the slugs that have no page.
RECURSIVE ResolvePagesUnfiltered(_, _)
ResolvePagesUnfiltered(pg, slugList) ==
    IF slugList = <<>> THEN <<>>
    ELSE LET rest == ResolvePagesUnfiltered(pg, Tail(slugList))
         IN  IF MapHas(pg, Head(slugList))
             THEN <<MapGet(pg, Head(slugList))>> \o rest
             ELSE <<[slug |-> Head(slugList), category |-> Undefined,
                     related |-> <<>>, seeAlso |-> <<>>]>> \o rest

\* .map(s => graph.pages.get(s)).filter(p => p !== undefined)
RECURSIVE ResolvePages(_, _)
ResolvePages(pg, slugList) ==
    IF slugList = <<>> THEN <<>>
    ELSE LET rest == ResolvePages(pg, Tail(slugList))
         IN  IF MapHas(pg, Head(slugList))
             THEN <<MapGet(pg, Head(slugList))>> \o rest
             ELSE rest

getBacklinks(pg, bl, slug) ==
    LET backlinkSlugs == IF MapHas(bl, slug) THEN MapGet(bl, slug) ELSE <<>>
    IN  ResolvePages(pg, backlinkSlugs)

\* A view that lists a slug once for each list that names it.
getRelatedPagesWithRepeats(pg, slug) ==
    IF ~MapHas(pg, slug) THEN <<>>
    ELSE LET page == MapGet(pg, slug)
         IN  ResolvePages(pg, page.related \o page.seeAlso)

getRelatedPages(pg, slug) ==
    IF ~MapHas(pg, slug) THEN <<>>
    ELSE LET page == MapGet(pg, slug)
             relatedSlugs == SetFromList(page.related \o page.seeAlso)
         IN  ResolvePages(pg, relatedSlugs)

\* !page.category
NoCategory(page) == page.category = Undefined \/ page.category = ""

\* A view that also groups the pages without a category.
getCategoryPagesUncategorised(pg, slug) ==
    IF ~MapHas(pg, slug) THEN <<>>
    ELSE LET page == MapGet(pg, slug)
             values == [i \in 1..Len(pg) |-> pg[i].v]
         IN  SelectSeq(values, LAMBDA p :
                 p.category = page.category /\ p.slug # slug)

getCategoryPages(pg, slug) ==
    IF ~MapHas(pg, slug) \/ NoCategory(MapGet(pg, slug)) THEN <<>>
    ELSE LET page == MapGet(pg, slug)
             values == [i \in 1..Len(pg) |-> pg[i].v]
         IN  SelectSeq(values, LAMBDA p :
                 p.category = page.category /\ p.slug # slug)

GraphInit ==
    /\ gpc = "start"
    /\ nread = 0
    /\ pages = <<>>
    /\ forwardLinks = <<>>
    /\ backlinks = <<>>
    /\ view = NoView
    /\ CacheIdle
    /\ RestIdle

\* await readdir(chaptersDir)
ReadDir ==
    /\ gpc = "start"
    /\ gpc' = "loop"
    /\ UNCHANGED <<nread, pages, forwardLinks, backlinks, view, exceptGraph>>

\* One iteration of the first pass.
LoadFile ==
    /\ gpc = "loop"
    /\ nread < MaxFiles
    /\ \E file \in FileInputs :
          IF ~file.md
          THEN UNCHANGED <<pages, forwardLinks>>
          ELSE /\ pages' = MapSet(pages, file.slug, WikiPage(file))
               /\ forwardLinks' = MapSet(forwardLinks, file.slug, AllLinks(file))
    /\ nread' = nread + 1
    /\ UNCHANGED <<gpc, backlinks, view, exceptGraph>>

\* The directory is exhausted: the second pass runs and the graph is returned.
BuildBacklinks ==
    /\ gpc = "loop"
    /\ backlinks' = SecondPass(<<>>, forwardLinks)
    /\ gpc' = "done"
    /\ UNCHANGED <<nread, pages, forwardLinks, view, exceptGraph>>

CallGetBacklinks ==
    /\ gpc = "done"
    /\ \E slug \in Targets :
          view' = [op |-> "getBacklinks", slug |-> slug,
                   result |-> getBacklinks(pages, backlinks, slug)]
    /\ UNCHANGED <<gpc, nread, pages, forwardLinks, backlinks, exceptGraph>>

CallGetRelatedPages ==
    /\ gpc = "done"
    /\ \E slug \in Targets :
          view' = [op |-> "getRelatedPages", slug |-> slug,
                   result |-> getRelatedPages(pages, slug)]
    /\ UNCHANGED <<gpc, nread, pages, forwardLinks, backlinks, exceptGraph>>

CallGetCategoryPages ==
    /\ gpc = "done"
    /\ \E slug \in Targets :
          view' = [op |-> "getCategoryPages", slug |-> slug,
                   result |-> getCategoryPages(pages, slug)]
    /\ UNCHANGED <<gpc, nread, pages, forwardLinks, backlinks, exceptGraph>>

GraphNext == ReadDir \/ LoadFile \/ BuildBacklinks \/ CallGetBacklinks

SpecGraph == GraphInit /\ [][GraphNext]_vars

\* Graphs put together by hand, as the unit tests of the derived views do:
\* backlinks need not be the transpose of anything and may name slugs that
\* have no page.
MockPageInputs(slug) ==
    [slug : {slug}, category : CategoryInputs \cup {"sufis"},
     related : RelatedInputs, seeAlso : SeeAlsoInputs]

MockPages ==
    {<<>>}
    \cup {<<[k |-> p.slug, v |-> p]>> : p \in MockPageInputs("a") \cup MockPageInputs("b")}
    \cup {<<[k |-> "a", v |-> p]>> \o <<[k |-> "b", v |-> q]>> :
             p \in MockPageInputs("a"), q \in MockPageInputs("b")}

MockSources == {<<>>, <<"b">>, <<"ghost", "a">>, <<"a", "b", "ghost">>}

MockBacklinks ==
    {<<>>}
    \cup {<<[k |-> "a", v |-> s]>> : s \in MockSources}
    \cup {<<[k |-> "ghost", v |-> s]>> : s \in MockSources}
    \cup {<<[k |-> "a", v |-> s]>> \o <<[k |-> "ghost", v |-> t]>> :
             s \in MockSources, t \in MockSources}

ViewsInit ==
    /\ gpc = "done"
    /\ nread = 0
    /\ pages \in MockPages
    /\ forwardLinks = <<>>
    /\ backlinks \in MockBacklinks
    /\ view = NoView
    /\ CacheIdle
    /\ RestIdle

ViewsNext == CallGetBacklinks \/ CallGetRelatedPages \/ CallGetCategoryPages

SpecViews == ViewsInit /\ [][ViewsNext]_vars

----------------------------------------------------------------------------
(* lib/api-error-handler.ts: checkRateLimit, and the routes that call it   *)

CHAT_LIMIT == 20

GRAPH_LIMIT == 60

RESEARCH_LIMIT == 10

MaxCalls == 22

MaxRouteCalls == 11

\* request.headers.get('x-forwarded-for') || 'unknown'
ClientIPs == {"unknown"}

\* checkRateLimit(identifier, maxRequests, windowMs) at time t on the map
\* counts: the value returned and the map it leaves.
checkRateLimit(identifier, maxRequests, windowMs, counts, t) ==
    LET windowStart == t - windowMs
    IN  IF ~MapHas(counts, identifier)
            \/ MapGet(counts, identifier).resetTime < windowStart
        THEN [ok |-> TRUE,
              counts |-> MapSet(counts, identifier,
                                [count |-> 1, resetTime |-> t + windowMs])]
        ELSE LET current == MapGet(counts, identifier)
             IN  IF current.count >= maxRequests
                 THEN [ok |-> FALSE, counts |-> counts]
                 ELSE [ok |-> TRUE,
                       counts |-> MapSet(counts, identifier,
                                         [current EXCEPT !.count = @ + 1])]

LimitOf(endpoint) ==
    CASE endpoint = "chat" -> CHAT_LIMIT
      [] endpoint = "graph" -> GRAPH_LIMIT
      [] endpoint = "research" -> RESEARCH_LIMIT

\* The requests made so far, over all endpoints and instants.
RECURSIVE SumOver(_, _)
SumOver(f, S) ==
    IF S = {} THEN 0
    ELSE LET x == CHOOSE y \in S : TRUE
         IN  f[x] + SumOver(f, S \ {x})

TotalMade ==
    SumOver([b \in Endpoints \X RateInstants |-> calls[b[1]][b[2]].made],
            Endpoints \X RateInstants)

\* Time passes between two requests.
RateTick ==
    /\ \E t \in RateInstants : t > now /\ now' = t
    /\ UNCHANGED <<rateVars, exceptRate>>

\* The head of a route handler: validateOrigin, then checkRateLimit with
\* the route's limit; a refused request is answered 429 and a request from
\* a forbidden origin 403, before the limiter is asked.
RequestHead(endpoint, maxCalls) ==
    /\ TotalMade < maxCalls
    /\ \E clientIP \in ClientIPs, originOk \in BOOLEAN :
          IF ~originOk
          THEN /\ resp' = [endpoint |-> endpoint, at |-> now, status |-> "forbidden"]
               /\ UNCHANGED <<requestCounts, calls>>
          ELSE LET r == checkRateLimit(clientIP, LimitOf(endpoint), WINDOW_MS,
                                       requestCounts, now)
               IN  /\ requestCounts' = r.counts
                   /\ calls' = [calls EXCEPT ![endpoint][now] =
                                   [made |-> @.made + 1,
                                    granted |-> @.granted + (IF r.ok THEN 1 ELSE 0)]]
                   /\ resp' = [endpoint |-> endpoint, at |-> now,
                               status |-> IF r.ok THEN "admitted" ELSE "rate limited"]

Request(endpoint, maxCalls) ==
    /\ RequestHead(endpoint, maxCalls)
    /\ UNCHANGED <<now, exceptRate>>

ChatRequest == Request("chat", MaxCalls)

GraphRequest == Request("graph", MaxRouteCalls)

ResearchRequest == Request("research", MaxRouteCalls)

RateInit == Idle

\* One client using the chat endpoint only.
ChatNext == RateTick \/ ChatRequest

SpecChat == RateInit /\ [][ChatNext]_vars

\* One client using the graph and the research endpoints.
RoutesNext == RateTick \/ GraphRequest \/ ResearchRequest

SpecRoutes == RateInit /\ [][RoutesNext]_vars

----------------------------------------------------------------------------
(* lib/ai-router.ts: analyzeQueryComplexity, routeQuery,                   *)
(* getModelRecommendation                                                  *)

\* The simple patterns of the form /^prefix(alt|...)\b/i.
SimplePrefixPatterns ==
    {
     \* /^what (is|are|does|do|means?|was|were)\b/i
     [prefix |-> <<"w", "h", "a", "t", " ">>,
      alts |-> {<<"i", "s">>, <<"a", "r", "e">>, <<"d", "o", "e", "s">>,
               <<"d", "o">>, <<"m", "e", "a", "n">>, <<"m", "e", "a", "n",
               "s">>, <<"w", "a", "s">>, <<"w", "e", "r", "e">>}],
     \* /^define\b/i
     [prefix |-> <<"d", "e", "f", "i", "n", "e">>,
      alts |-> {<<>>}],
     \* /^definition of\b/i
     [prefix |-> <<"d", "e", "f", "i", "n", "i", "t", "i", "o", "n", " ", "o",
                 "f">>,
      alts |-> {<<>>}],
     \* /^summarize\b/i
     [prefix |-> <<"s", "u", "m", "m", "a", "r", "i", "z", "e">>,
      alts |-> {<<>>}],
     \* /^summary of\b/i
     [prefix |-> <<"s", "u", "m", "m", "a", "r", "y", " ", "o", "f">>,
      alts |-> {<<>>}],
     \* /^tldr\b/i
     [prefix |-> <<"t", "l", "d", "r">>,
      alts |-> {<<>>}],
     \* /^eli5\b/i
     [prefix |-> <<"e", "l", "i", "5">>,
      alts |-> {<<>>}],
     \* /^quick (question|summary)\b/i
     [prefix |-> <<"q", "u", "i", "c", "k", " ">>,
      alts |-> {<<"q", "u", "e", "s", "t", "i", "o", "n">>, <<"s", "u", "m",
               "m", "a", "r", "y">>}],
     \* /^how do (i|you)\b/i
     [prefix |-> <<"h", "o", "w", " ", "d", "o", " ">>,
      alts |-> {<<"i">>, <<"y", "o", "u">>}],
     \* /^can you (list|name)\b/i
     [prefix |-> <<"c", "a", "n", " ", "y", "o", "u", " ">>,
      alts |-> {<<"l", "i", "s", "t">>, <<"n", "a", "m", "e">>}],
     \* /^who (is|was|were)\b/i
     [prefix |-> <<"w", "h", "o", " ">>,
      alts |-> {<<"i", "s">>, <<"w", "a", "s">>, <<"w", "e", "r", "e">>}],
     \* /^when (did|was|were)\b/i
     [prefix |-> <<"w", "h", "e", "n", " ">>,
      alts |-> {<<"d", "i", "d">>, <<"w", "a", "s">>, <<"w", "e", "r", "e">>}],
     \* /^where (is|was|were)\b/i
     [prefix |-> <<"w", "h", "e", "r", "e", " ">>,
      alts |-> {<<"i", "s">>, <<"w", "a", "s">>, <<"w", "e", "r", "e">>}]}

\* The complex indicators that are alternations of literal texts, such as
\* /compar(e|ison|ative)/i, each alternative spelled out.
ComplexLiterals ==
    {
     <<"c", "o", "m", "p", "a", "r", "e">>,
     <<"c", "o", "m", "p", "a", "r", "i", "s", "o", "n">>,
     <<"c", "o", "m", "p", "a", "r", "a", "t", "i", "v", "e">>,
     <<"a", "n", "a", "l", "y", "z", "e">>,
     <<"a", "n", "a", "l", "y", "z", "i", "s">>,
     <<"c", "r", "i", "t", "i", "c", "a", "l">>,
     <<"c", "r", "i", "t", "i", "c", "i", "s", "m">>,
     <<"c", "r", "i", "t", "i", "c", "i", "z", "e">>,
     <<"e", "v", "a", "l", "u", "a", "t", "e">>,
     <<"e", "v", "a", "l", "u", "a", "t", "i", "o", "n">>,
     <<"r", "e", "l", "a", "t", "i", "o", "n", "s", "h", "i", "p", " ", "b",
       "e", "t", "w", "e", "e", "n">>,
     <<"i", "m", "p", "l", "i", "c", "a", "t", "i", "o", "n">>,
     <<"c", "o", "n", "s", "e", "q", "u", "e", "n", "c", "e">>,
     <<"s", "y", "n", "t", "h", "e", "s", "i", "z", "e">>,
     <<"s", "y", "n", "t", "h", "e", "s", "i", "z", "i", "n", "g">>,
     <<"i", "n", " ", "d", "e", "p", "t", "h">>,
     <<"d", "e", "t", "a", "i", "l", "e", "d", " ", "e", "x", "p", "l", "a",
       "n", "a", "t", "i", "o", "n">>,
     <<"d", "e", "t", "a", "i", "l", "e", "d", " ", "a", "n", "a", "l", "y",
       "s", "i", "s">>,
     <<"p", "h", "i", "l", "o", "s", "o", "p", "h", "i", "c", "a", "l">>,
     <<"t", "h", "e", "o", "l", "o", "g", "i", "c", "a", "l">>}

StrExplain == <<"e", "x", "p", "l", "a", "i", "n">>

StrBriefly == <<"b", "r", "i", "e", "f", "l", "y">>

StrExplore == <<"e", "x", "p", "l", "o", "r", "e">>

StrConnection == <<"c", "o", "n", "n", "e", "c", "t", "i", "o", "n">>

WhyWords == {<<"w", "h", "y">>, <<"h", "o", "w", " ", "c", "o", "m", "e">>}

BecauseWords == {<<"b", "e", "c", "a", "u", "s", "e">>, <<"s", "i", "n", "c", "e">>,
                 <<"r", "e", "a", "s", "o", "n">>}

\* ""
HeadNone ==
    <<>>

\* "What is "
HeadWhatIs ==
    <<"W", "h", "a", "t", " ", "i", "s", " ">>

\* "  what is "
HeadPaddedWhatIs ==
    <<" ", " ", "w", "h", "a", "t", " ", "i", "s", " ">>

\* "what isnt "
HeadWhatIsnt ==
    <<"w", "h", "a", "t", " ", "i", "s", "n", "t", " ">>

\* "Explain "
HeadExplain ==
    <<"E", "x", "p", "l", "a", "i", "n", " ">>

\* "Compare "
HeadCompare ==
    <<"C", "o", "m", "p", "a", "r", "e", " ">>

\* "why "
HeadWhy ==
    <<"w", "h", "y", " ">>

\* "kenosis?"
BodyKenosis ==
    <<"k", "e", "n", "o", "s", "i", "s", "?">>

\* "the relationship between sukr and yurodstvo"
BodyRelationship ==
    <<"t", "h", "e", " ", "r", "e", "l", "a", "t", "i", "o", "n", "s", "h",
    "i", "p", " ", "b", "e", "t", "w", "e", "e", "n", " ", "s", "u", "k", "r",
    " ", "a", "n", "d", " ", "y", "u", "r", "o", "d", "s", "t", "v", "o">>

\* "a b c d e f g h i j k"
BodyEleven ==
    <<"a", " ", "b", " ", "c", " ", "d", " ", "e", " ", "f", " ", "g", " ",
    "h", " ", "i", " ", "j", " ", "k">>

\* "w w w w w w w w w w w w w w w w w w w w w w w w w"
BodyTwentyFive ==
    <<"w", " ", "w", " ", "w", " ", "w", " ", "w", " ", "w", " ", "w", " ",
    "w", " ", "w", " ", "w", " ", "w", " ", "w", " ", "w", " ", "w", " ", "w",
    " ", "w", " ", "w", " ", "w", " ", "w", " ", "w", " ", "w", " ", "w", " ",
    "w", " ", "w", " ", "w">>

\* "a b c d e f g h i j"
BodyTen ==
    <<"a", " ", "b", " ", "c", " ", "d", " ", "e", " ", "f", " ", "g", " ",
    "h", " ", "i", " ", "j">>

\* ""
TailNone ==
    <<>>

\* " briefly"
TailBriefly ==
    <<" ", "b", "r", "i", "e", "f", "l", "y">>

\* " in depth"
TailInDepth ==
    <<" ", "i", "n", " ", "d", "e", "p", "t", "h">>

\* " for what reason"
TailReason ==
    <<" ", "f", "o", "r", " ", "w", "h", "a", "t", " ", "r", "e", "a", "s",
    "o", "n">>

\* " "
TailSpace ==
    <<" ">>

QueryHeads == {HeadNone, HeadWhatIs, HeadPaddedWhatIs, HeadWhatIsnt, HeadExplain, HeadCompare, HeadWhy}

QueryBodies == {BodyKenosis, BodyRelationship, BodyEleven, BodyTwentyFive, BodyTen}

QueryTails == {TailNone, TailBriefly, TailInDepth, TailReason, TailSpace}

\* An optional string argument: passed or not, and its text.
NoText == [defined |-> FALSE, text |-> <<>>]

Text(s) == [defined |-> TRUE, text |-> s]

\* "Compare the theological implications of sukr and yurodstvo in depth"
QCompareExample ==
    <<"C", "o", "m", "p", "a", "r", "e", " ", "t", "h", "e", " ", "t", "h",
    "e", "o", "l", "o", "g", "i", "c", "a", "l", " ", "i", "m", "p", "l", "i",
    "c", "a", "t", "i", "o", "n", "s", " ", "o", "f", " ", "s", "u", "k", "r",
    " ", "a", "n", "d", " ", "y", "u", "r", "o", "d", "s", "t", "v", "o", " ",
    "i", "n", " ", "d", "e", "p", "t", "h">>

RouterQueries ==
    {h \o b \o t : h \in QueryHeads, b \in QueryBodies, t \in QueryTails}
        \cup {QCompareExample}

\* No selected text, an empty one, one of 100 characters and one of 101.
SelectedTextInputs ==
    {NoText, Text(<<>>), Text([i \in 1..100 |-> "x"]), Text([i \in 1..101 |-> "x"])}

RouterInputs == [query : RouterQueries, selectedText : SelectedTextInputs]

\* The text p stands in s from position i on.
MatchAt(s, i, p) ==
    /\ i >= 1
    /\ i + Len(p) - 1 <= Len(s)
    /\ \A j \in 1..Len(p) : s[i + j - 1] = p[j]

\* The regular expression assertion \b between positions k and k + 1 of s.
WordBoundary(s, k) ==
    (k >= 1 /\ k <= Len(s) /\ IsWordChar(s[k]))
        # (k + 1 >= 1 /\ k + 1 <= Len(s) /\ IsWordChar(s[k + 1]))

\* The characters `.` does not match.
IsLineTerminator(c) == c \in {"\n", "\r"}

\* `.*` can match the characters of s from position i to position j.
DotStar(s, i, j) == \A k \in i..j : ~IsLineTerminator(s[k])

\* /^prefix(alt|...)\b/
MatchesPrefixPattern(s, pattern) ==
    \E alt \in pattern.alts :
        /\ MatchAt(s, 1, pattern.prefix \o alt)
        /\ WordBoundary(s, Len(pattern.prefix) + Len(alt))

\* /^explain.*briefly\b/
MatchesExplainBriefly(s) ==
    /\ MatchAt(s, 1, StrExplain)
    /\ \E i \in (Len(StrExplain) + 1)..Len(s) :
          /\ MatchAt(s, i, StrBriefly)
          /\ DotStar(s, Len(StrExplain) + 1, i - 1)
          /\ WordBoundary(s, i + Len(StrBriefly) - 1)

\* simplePatterns.some(pattern => pattern.test(lowerQuery))
MatchesSimple(s) ==
    \/ \E pattern \in SimplePrefixPatterns : MatchesPrefixPattern(s, pattern)
    \/ MatchesExplainBriefly(s)

\* /\b(why|how come)\b.*\b(because|since|reason)/
MatchesWhyBecause(s) ==
    \E i \in 1..Len(s), w \in WhyWords :
        /\ WordBoundary(s, i - 1)
        /\ MatchAt(s, i, w)
        /\ WordBoundary(s, i + Len(w) - 1)
        /\ \E j \in (i + Len(w))..Len(s), b \in BecauseWords :
              /\ DotStar(s, i + Len(w), j - 1)
              /\ WordBoundary(s, j - 1)
              /\ MatchAt(s, j, b)

\* /explore.*connection/
MatchesExploreConnection(s) ==
    \E i \in 1..Len(s) :
        /\ MatchAt(s, i, StrExplore)
        /\ \E j \in (i + Len(StrExplore))..Len(s) :
              /\ DotStar(s, i + Len(StrExplore), j - 1)
              /\ MatchAt(s, j, StrConnection)

\* complexIndicators.some(indicator => indicator.test(lowerQuery))
MatchesComplex(s) ==
    \/ \E lit \in ComplexLiterals : \E i \in 1..Len(s) : MatchAt(s, i, lit)
    \/ MatchesWhyBecause(s)
    \/ MatchesExploreConnection(s)

\* selectedText && selectedText.length > 100
hasSelectedText(selectedText) ==
    /\ selectedText.defined
    /\ selectedText.text # <<>>
    /\ Len(selectedText.text) > 100

\* A classification that tests the complex indicators first.
analyzeQueryComplexityComplexFirst(query, selectedText) ==
    LET lowerQuery == trim(toLowerCase(query))
        wordCount  == Len(splitWhitespace(query))
    IN  IF MatchesComplex(lowerQuery) THEN "complex"
        ELSE IF MatchesSimple(lowerQuery) THEN "simple"
        ELSE IF wordCount > 20 \/ hasSelectedText(selectedText) THEN "medium"
        ELSE IF wordCount <= 10 THEN "simple"
        ELSE "medium"

analyzeQueryComplexity(query, selectedText) ==
    LET lowerQuery == trim(toLowerCase(query))
        wordCount  == Len(splitWhitespace(query))
    IN  IF MatchesSimple(lowerQuery) THEN "simple"
        ELSE IF MatchesComplex(lowerQuery) THEN "complex"
        ELSE IF wordCount > 20 \/ hasSelectedText(selectedText) THEN "medium"
        ELSE IF wordCount <= 10 THEN "simple"
        ELSE "medium"

\* MODELS, the costs per million tokens in hundredths of a dollar.
MODELS ==
    [HAIKU  |-> [model |-> "anthropic/claude-3.5-haiku", maxTokens |-> 400,
                 inputCostPer1M |-> 25, outputCostPer1M |-> 125],
     SONNET |-> [model |-> "anthropic/claude-sonnet-4.5", maxTokens |-> 600,
                 inputCostPer1M |-> 300, outputCostPer1M |-> 1500]]

\* The values of analyzeQueryComplexity over the inputs, evaluated once.
ComplexityOf ==
    [input \in RouterInputs |->
        analyzeQueryComplexity(input.query, input.selectedText)] @@ <<>>

\* A routing that sends only complex queries to Sonnet.
routeQueryMediumToHaiku(query, selectedText) ==
    LET complexity == ComplexityOf[[query |-> query, selectedText |-> selectedText]]
    IN  IF complexity = "complex" THEN MODELS.SONNET ELSE MODELS.HAIKU

routeQuery(query, selectedText) ==
    LET complexity == ComplexityOf[[query |-> query, selectedText |-> selectedText]]
    IN  IF complexity = "simple" THEN MODELS.HAIKU ELSE MODELS.SONNET

\* Math.ceil(text.length / 4)
estimateTokens(text) == (Len(text) + 3) \div 4

getModelRecommendation(query, selectedText) ==
    LET complexity == ComplexityOf[[query |-> query, selectedText |-> selectedText]]
        model == routeQuery(query, selectedText)
        queryTokens == estimateTokens(query)
        selectionTokens ==
            IF selectedText.defined /\ selectedText.text # <<>>
            THEN estimateTokens(selectedText.text) ELSE 0
        systemPromptTokens == 500
        reasoning ==
            CASE complexity = "simple" ->
                     "Simple query pattern detected (definitions, basic questions). Routing to Haiku for cost efficiency."
              [] complexity = "medium" ->
                     "Medium complexity query. Using Sonnet for balanced quality."
              [] complexity = "complex" ->
                     "Complex query requiring analysis or synthesis. Using Sonnet for highest quality."
    IN  [model |-> model, complexity |-> complexity, reasoning |-> reasoning,
         estimatedInputTokens |-> queryTokens + selectionTokens + systemPromptTokens]

CallAnalyzeQueryComplexity ==
    /\ \E input \in RouterInputs :
          routed' = [op |-> "analyzeQueryComplexity", input |-> input,
                     complexity |-> ComplexityOf[input]]
    /\ UNCHANGED exceptRouter

CallRouteQuery ==
    /\ \E input \in RouterInputs :
          routed' = [op |-> "routeQuery", input |-> input,
                     model |-> routeQuery(input.query, input.selectedText)]
    /\ UNCHANGED exceptRouter

CallGetModelRecommendation ==
    /\ \E input \in RouterInputs :
          routed' = [op |-> "getModelRecommendation", input |-> input,
                     recommendation |->
                         getModelRecommendation(input.query, input.selectedText)]
    /\ UNCHANGED exceptRouter

RouterInit == Idle

RouterNext ==
    CallAnalyzeQueryComplexity \/ CallRouteQuery \/ CallGetModelRecommendation

SpecRouter == RouterInit /\ [][RouterNext]_vars

----------------------------------------------------------------------------
(* lib/prompt-cache.ts: buildCachedMessages, truncateContext               *)

\* '...'
StrEllipsis ==
    <<".", ".", ".">>

\* `Current Page Context:\n\n`
StrPageContext ==
    <<"C", "u", "r", "r", "e", "n", "t", " ", "P", "a", "g", "e", " ", "C",
      "o", "n", "t", "e", "x", "t", ":", "\n", "\n">>

\* `Selected Text for Discussion:\n"`
StrSelectedText ==
    <<"S", "e", "l", "e", "c", "t", "e", "d", " ", "T", "e", "x", "t", " ",
      "f", "o", "r", " ", "D", "i", "s", "c", "u", "s", "s", "i", "o", "n",
      ":", "\n", "\"">>

\* `"\n\nQuestion about this selection:`
StrQuestion ==
    <<"\"", "\n", "\n", "Q", "u", "e", "s", "t", "i", "o", "n", " ", "a",
      "b", "o", "u", "t", " ", "t", "h", "i", "s", " ", "s", "e", "l", "e",
      "c", "t", "i", "o", "n", ":">>

\* CACHED_SYSTEM_PROMPT, a constant text the code does no character work on.
CACHED_SYSTEM_PROMPT ==
    "You are a research assistant for the \"Sacred Madness\" academic wiki, which explores holy foolishness, divine intoxication, and mystical practices across Orthodox Christianity and Sufi Islam.\n\nYour role is to:\n- Help researchers understand complex concepts\n- Suggest connections between ideas\n- Generate research questions\n- Explain theological and mystical terminology\n- Be academically rigorous but accessible\n\nThe wiki covers:\n- Byzantine saloi (6th-11th century holy fools)\n- Russian yurodivye (Basil the Blessed, St. Xenia, Pelagia)\n- Sufi majdhub/mast (divinely intoxicated mystics)\n- Abdalan-i Rum (Anatolian antinomian dervishes - Kalenderi, Bektashi)\n- Comparative mysticism and phenomenology\n- Intersection of psychiatry, neuroscience, and spirituality\n- St. Dymphna, Geel care model\n- Bipolar II and mystical experience\n\nGeographic focus: Anatolia, Byzantine-Ottoman transitions (6th-16th centuries)\nMethodological approach: Practice-centered analysis, positionality-grounded research, cross-traditional comparison"

\* The character budget buildCachedMessages passes to truncateContext.
CONTEXT_BUDGET == 2000

\* String.prototype.substring(0, end)
substring0(text, end) ==
    SubSeq(text, 1, IF end < 0 THEN 0 ELSE IF end > Len(text) THEN Len(text) ELSE end)

\* A truncation that cuts at maxChars and then appends the ellipsis.
truncateContextOverBudget(text, maxChars) ==
    IF Len(text) <= maxChars THEN text
    ELSE substring0(text, maxChars) \o StrEllipsis

truncateContext(text, maxChars) ==
    IF Len(text) <= maxChars THEN text
    ELSE substring0(text, maxChars - 3) \o StrEllipsis

\* An optional string argument is truthy: passed, and not the empty string.
Truthy(arg) == arg.defined /\ arg.text # <<>>

\* cache_control: { type: 'ephemeral' }
Ephemeral == "ephemeral"

\* An assembly that puts the selected text before the page context.
buildCachedMessagesSelectionFirst(userQuery, pageContext, selectedText) ==
    <<[role |-> "system", content |-> CACHED_SYSTEM_PROMPT,
       cache_control |-> Ephemeral]>>
    \o (IF Truthy(selectedText)
        THEN <<[role |-> "user",
                content |-> StrSelectedText
                            \o selectedText.text
                            \o StrQuestion,
                cache_control |-> Undefined]>>
        ELSE <<>>)
    \o (IF Truthy(pageContext)
        THEN <<[role |-> "user",
                content |-> StrPageContext
                            \o truncateContext(pageContext.text, CONTEXT_BUDGET),
                cache_control |-> Ephemeral]>>
        ELSE <<>>)
    \o <<[role |-> "user", content |-> userQuery, cache_control |-> Undefined]>>

buildCachedMessages(userQuery, pageContext, selectedText) ==
    <<[role |-> "system", content |-> CACHED_SYSTEM_PROMPT,
       cache_control |-> Ephemeral]>>
    \o (IF Truthy(pageContext)
        THEN <<[role |-> "user",
                content |-> StrPageContext
                            \o truncateContext(pageContext.text, CONTEXT_BUDGET),
                cache_control |-> Ephemeral]>>
        ELSE <<>>)
    \o (IF Truthy(selectedText)
        THEN <<[role |-> "user",
                content |-> StrSelectedText
                            \o selectedText.text
                            \o StrQuestion,
                cache_control |-> Undefined]>>
        ELSE <<>>)
    \o <<[role |-> "user", content |-> userQuery, cache_control |-> Undefined]>>

\* A text of n characters whose character at position i is the last digit
\* of i.
Numbered(n) ==
    [i \in 1..n |->
        <<"0", "1", "2", "3", "4", "5", "6", "7", "8", "9">>[(i % 10) + 1]]

UserQueryInputs == {<<>>, BodyKenosis, HeadWhatIs \o BodyKenosis, QCompareExample}

\* No page context, the empty one, short ones (one of them ending in three
\* dots), and ones of 1999, 2000, 2001 and 2004 characters.
PageContextInputs ==
    {NoText, Text(<<>>), Text(BodyRelationship),
     Text(BodyKenosis \o StrEllipsis)}
        \cup {Text(Numbered(CONTEXT_BUDGET + d)) : d \in {-1, 0, 1, 4}}

SelectionInputs == {NoText, Text(<<>>), Text(BodyKenosis), Text(BodyTen)}

PromptInputs ==
    [userQuery : UserQueryInputs, pageContext : PageContextInputs,
     selectedText : SelectionInputs]

CallBuildCachedMessages ==
    /\ \E input \in PromptInputs :
          built' = [op |-> "buildCachedMessages", input |-> input,
                    messages |-> buildCachedMessages(input.userQuery,
                                                     input.pageContext,
                                                     input.selectedText)]
    /\ UNCHANGED exceptPrompt

PromptInit == Idle

PromptNext == CallBuildCachedMessages

SpecPrompt == PromptInit /\ [][PromptNext]_vars

----------------------------------------------------------------------------
(* lib/cost-monitor: the cost log, its prices and its budget alert         *)
(*                                                                         *)
(* Costs are whole numbers of units of 1/40000000 dollar, the price of one *)
(* cached Haiku token (0.025 dollars per million), of which every price in *)
(* the code is a multiple. The times of the cost monitor are whole         *)
(* seconds, Date.now() / 1000: 30 days of milliseconds are more than the   *)
(* 32-bit integers of the model checker hold.                              *)

UnitsPerDollar == 40000000

\* The prices in dollars per million tokens, as units per token.
Prices ==
    [haiku  |-> [input |-> 10, output |-> 50, cached |-> 1],
     sonnet |-> [input |-> 120, output |-> 600, cached |-> 12]]

\* A pricing that bills every started thousand of input tokens in full.
calculateClaudeCostPerThousand(inputTokens, outputTokens, cachedTokens, model) ==
    LET price == IF model = "haiku" THEN Prices.haiku ELSE Prices.sonnet
        cachedCost == cachedTokens * price.cached
        regularInputCost ==
            (((inputTokens - cachedTokens) + 999) \div 1000) * 1000 * price.input
        outputCost == outputTokens * price.output
    IN  cachedCost + regularInputCost + outputCost

calculateClaudeCost(inputTokens, outputTokens, cachedTokens, model) ==
    LET price == IF model = "haiku" THEN Prices.haiku ELSE Prices.sonnet
        outputCost == outputTokens * price.output
        cachedCost == cachedTokens * price.cached
        regularInputCost == (inputTokens - cachedTokens) * price.input
    IN  cachedCost + regularInputCost + outputCost

\* 0.005 dollars per request that is not served from the cache.
calculateTavilyCost(cached) == IF cached THEN 0 ELSE 200000

\* 24 * 60 * 60 * 1000 milliseconds.
oneDay == 24 * 60 * 60

\* The budget in dollars per day.
DAILY_BUDGET_THRESHOLD == 3

\* An optional number field of a log entry: present or not, and its value.
NoNumber == [defined |-> FALSE, value |-> 0]

Number(n) == [defined |-> TRUE, value |-> n]

\* logs.reduce((sum, log) => sum + log.estimatedCost, 0)
RECURSIVE SumCost(_)
SumCost(logs) ==
    IF logs = <<>> THEN 0
    ELSE SumCost(SubSeq(logs, 1, Len(logs) - 1)) + logs[Len(logs)].estimatedCost

getPeriodType(startTime, endTime) ==
    LET duration == endTime - startTime
        oneWeek == 7 * oneDay
    IN  IF duration <= oneDay THEN "daily"
        ELSE IF duration <= oneWeek THEN "weekly"
        ELSE "monthly"

\* x / y when y > 0 and 0 otherwise, as the fraction [hits, of].
Quotient(x, y) == IF y > 0 THEN [hits |-> x, of |-> y] ELSE [hits |-> 0, of |-> 1]

\* A summary of the entries before endTime, leaving out those at endTime.
calculateCostForPeriodHalfOpen(startTime, endTime, allLogs) ==
    LET logs == SelectSeq(allLogs, LAMBDA log :
                    log.timestamp >= startTime /\ log.timestamp < endTime)
        claudeLogs == SelectSeq(logs, LAMBDA log : log.service = "claude")
        tavilyLogs == SelectSeq(logs, LAMBDA log : log.service = "tavily")
        cacheableLogs == SelectSeq(logs, LAMBDA log :
                             log.cachedTokens.defined \/ log.service = "tavily")
        cacheHits == Len(SelectSeq(cacheableLogs, LAMBDA log : log.cacheHit))
        haikuLogs == SelectSeq(logs, LAMBDA log : log.model = "haiku")
        sonnetLogs == SelectSeq(logs, LAMBDA log : log.model = "sonnet")
        totalCost == SumCost(logs)
    IN  [period |-> getPeriodType(startTime, endTime),
         totalCost |-> totalCost,
         claudeCost |-> SumCost(claudeLogs),
         tavilyCost |-> SumCost(tavilyLogs),
         callCount |-> Len(logs),
         cacheHitRate |-> Quotient(cacheHits, Len(cacheableLogs)),
         averageCostPerCall |-> Quotient(totalCost, Len(logs)),
         breakdown |->
             [haiku |-> [calls |-> Len(haikuLogs), cost |-> SumCost(haikuLogs)],
              sonnet |-> [calls |-> Len(sonnetLogs), cost |-> SumCost(sonnetLogs)],
              tavily |-> [calls |-> Len(tavilyLogs), cost |-> SumCost(tavilyLogs)]]]

\* calculateCostForPeriod on the log allLogs; the two quotients of the
\* summary are fractions.
calculateCostForPeriod(startTime, endTime, allLogs) ==
    LET logs == SelectSeq(allLogs, LAMBDA log :
                    log.timestamp >= startTime /\ log.timestamp <= endTime)
        claudeLogs == SelectSeq(logs, LAMBDA log : log.service = "claude")
        tavilyLogs == SelectSeq(logs, LAMBDA log : log.service = "tavily")
        cacheableLogs == SelectSeq(logs, LAMBDA log :
                             log.cachedTokens.defined \/ log.service = "tavily")
        cacheHits == Len(SelectSeq(cacheableLogs, LAMBDA log : log.cacheHit))
        haikuLogs == SelectSeq(logs, LAMBDA log : log.model = "haiku")
        sonnetLogs == SelectSeq(logs, LAMBDA log : log.model = "sonnet")
        totalCost == SumCost(logs)
    IN  [period |-> getPeriodType(startTime, endTime),
         totalCost |-> totalCost,
         claudeCost |-> SumCost(claudeLogs),
         tavilyCost |-> SumCost(tavilyLogs),
         callCount |-> Len(logs),
         cacheHitRate |-> Quotient(cacheHits, Len(cacheableLogs)),
         averageCostPerCall |-> Quotient(totalCost, Len(logs)),
         breakdown |->
             [haiku |-> [calls |-> Len(haikuLogs), cost |-> SumCost(haikuLogs)],
              sonnet |-> [calls |-> Len(sonnetLogs), cost |-> SumCost(sonnetLogs)],
              tavily |-> [calls |-> Len(tavilyLogs), cost |-> SumCost(tavilyLogs)]]]

\* calculateDailyCost at time t on the log logs.
calculateDailyCost(logs, t) ==
    calculateCostForPeriod(t - oneDay, t, logs).totalCost

\* logBudgetAlert: the alert it writes and, with COST_ALERT_WEBHOOK set,
\* posts.
BudgetAlert(period, actual, threshold, t) ==
    [alert |-> "cost_threshold_exceeded", period |-> period,
     actualCost |-> actual, threshold |-> threshold, timestamp |-> t]

\* A logging that drops the call once the budget is exceeded.
logAPICallBlocking(log, logs, emitted, t) ==
    IF calculateDailyCost(logs, t) > DAILY_BUDGET_THRESHOLD * UnitsPerDollar
    THEN [costLogs |-> logs, alerts |-> emitted]
    ELSE [costLogs |-> Append(logs, log), alerts |-> emitted]

\* A logging that alerts as soon as the budget is reached.
logAPICallAtThreshold(log, logs, emitted, t) ==
    LET pushed == Append(logs, log)
        dailyCost == calculateDailyCost(pushed, t)
    IN  [costLogs |-> pushed,
         alerts |-> IF dailyCost >= DAILY_BUDGET_THRESHOLD * UnitsPerDollar
                    THEN Append(emitted, BudgetAlert("daily", dailyCost,
                                                     DAILY_BUDGET_THRESHOLD, t))
                    ELSE emitted]

\* logAPICall(log) at time t on the log logs, with the alerts emitted so
\* far: the log and the alerts it leaves.
logAPICall(log, logs, emitted, t) ==
    LET pushed == Append(logs, log)
        dailyCost == calculateDailyCost(pushed, t)
    IN  [costLogs |-> pushed,
         alerts |-> IF dailyCost > DAILY_BUDGET_THRESHOLD * UnitsPerDollar
                    THEN Append(emitted, BudgetAlert("daily", dailyCost,
                                                     DAILY_BUDGET_THRESHOLD, t))
                    ELSE emitted]

\* The entry logClaudeCall writes at time t.
ClaudeLog(params, t) ==
    [timestamp |-> t, service |-> "claude", model |-> params.model,
     endpoint |-> "/api/ai/chat",
     inputTokens |-> Number(params.inputTokens),
     outputTokens |-> Number(params.outputTokens),
     cachedTokens |-> Number(params.cachedTokens), cacheHit |-> params.cacheHit,
     estimatedCost |-> calculateClaudeCost(params.inputTokens, params.outputTokens,
                                           params.cachedTokens, params.model),
     success |-> params.success, error |-> params.error]

\* The entry logTavilyCall writes at time t.
TavilyLog(params, t) ==
    [timestamp |-> t, service |-> "tavily", model |-> Undefined,
     endpoint |-> "/api/documentation/research",
     inputTokens |-> NoNumber, outputTokens |-> NoNumber,
     cachedTokens |-> NoNumber, cacheHit |-> params.cached,
     estimatedCost |-> calculateTavilyCost(params.cached),
     success |-> params.success, error |-> params.error]

\* cleanupOldLogs at time t on the log logs.
cleanupOldLogs(logs, t) ==
    LET thirtyDaysAgo == t - 30 * oneDay
    IN  SelectSeq(logs, LAMBDA log : log.timestamp >= thirtyDaysAgo)

MaxLogs == 2

\* The instants of the cost monitor: either side of one day and of 30 days
\* after the first.
CostInstants == {0, 1, oneDay, oneDay + 1, 30 * oneDay, 30 * oneDay + 1}

\* A Sonnet call of exactly 3 dollars, a cheap one with cached tokens and a
\* failed Haiku call.
ClaudeCallInputs ==
    {[model |-> "sonnet", inputTokens |-> 1000000, outputTokens |-> 0,
      cachedTokens |-> 0, cacheHit |-> FALSE, success |-> TRUE, error |-> Undefined],
     [model |-> "sonnet", inputTokens |-> 1000, outputTokens |-> 400,
      cachedTokens |-> 500, cacheHit |-> TRUE, success |-> TRUE, error |-> Undefined],
     [model |-> "haiku", inputTokens |-> 0, outputTokens |-> 0,
      cachedTokens |-> 0, cacheHit |-> FALSE, success |-> FALSE,
      error |-> "API error: 500"]}

TavilyCallInputs ==
    {[cached |-> FALSE, success |-> TRUE, error |-> Undefined],
     [cached |-> TRUE, success |-> TRUE, error |-> Undefined]}

\* Entries a caller of logAPICall dates itself: at the first instant, and a
\* second after the call.
DatedLogs(t) ==
    {[TavilyLog([cached |-> FALSE, success |-> TRUE, error |-> Undefined], at)
         EXCEPT !.estimatedCost = 4 * UnitsPerDollar] : at \in {0, t + 1}}

CostTick ==
    /\ \E t \in CostInstants : t > costNow /\ costNow' = t
    /\ UNCHANGED <<costLogs, alerts, costed, exceptCost>>

\* A call of logAPICall with the entry log, made under the name op: what it
\* does to the cost monitor.
LogHead(op, log) ==
    /\ Len(costLogs) < MaxLogs
    /\ Len(alerts) < MaxLogs
    /\ LET r == logAPICall(log, costLogs, alerts, costNow)
       IN  /\ costLogs' = r.costLogs
           /\ alerts' = r.alerts
    /\ costed' = [op |-> op, log |-> log, at |-> costNow,
                  logs |-> costLogs, alerts |-> alerts]

Log(op, log) ==
    /\ LogHead(op, log)
    /\ UNCHANGED <<costNow, exceptCost>>

CallLogAPICall == \E log \in DatedLogs(costNow) : Log("logAPICall", log)

logClaudeCall ==
    \E params \in ClaudeCallInputs : Log("logClaudeCall", ClaudeLog(params, costNow))

logTavilyCall ==
    \E params \in TavilyCallInputs : Log("logTavilyCall", TavilyLog(params, costNow))

CallCalculateDailyCost ==
    /\ costed' = [op |-> "calculateDailyCost", at |-> costNow, logs |-> costLogs,
                  alerts |-> alerts,
                  result |-> calculateDailyCost(costLogs, costNow)]
    /\ UNCHANGED <<costNow, costLogs, alerts, exceptCost>>

\* The periods asked for: one instant, the first day, the day that ends a
\* second after it, everything, and a period that ends before it starts.
PeriodInputs ==
    {<<0, 0>>, <<oneDay + 1, oneDay + 1>>, <<0, oneDay>>, <<1, oneDay + 1>>,
     <<0, 30 * oneDay + 1>>, <<oneDay, 0>>}

CallCalculateCostForPeriod ==
    /\ \E period \in PeriodInputs :
        LET startTime == period[1]
            endTime == period[2]
        IN
          costed' = [op |-> "calculateCostForPeriod", at |-> costNow,
                     logs |-> costLogs, alerts |-> alerts,
                     startTime |-> startTime, endTime |-> endTime,
                     result |-> calculateCostForPeriod(startTime, endTime, costLogs)]
    /\ UNCHANGED <<costNow, costLogs, alerts, exceptCost>>

CallCleanupOldLogs ==
    /\ costLogs' = cleanupOldLogs(costLogs, costNow)
    /\ costed' = [op |-> "cleanupOldLogs", at |-> costNow, logs |-> costLogs,
                  alerts |-> alerts]
    /\ UNCHANGED <<costNow, alerts, exceptCost>>

CostInit == Idle

CostNext ==
    \/ CostTick
    \/ CallLogAPICall
    \/ logClaudeCall
    \/ logTavilyCall
    \/ CallCalculateDailyCost
    \/ CallCleanupOldLogs

SpecCost == CostInit /\ [][CostNext]_vars

\* The log as logClaudeCall and logTavilyCall fill it, and its summaries.
PeriodInit == Idle

PeriodNext ==
    \/ CostTick
    \/ logClaudeCall
    \/ logTavilyCall
    \/ CallCalculateCostForPeriod

SpecPeriod == PeriodInit /\ [][PeriodNext]_vars

\* The token counts of the calls of calculateClaudeCost.
TokenCounts == {0, 1, 2, 500, 1000, 1000000}

PricingInputs ==
    [inputTokens : TokenCounts, outputTokens : TokenCounts,
     cachedTokens : {0, 1, 1000}, model : {"haiku", "sonnet"}]

CallCalculateClaudeCost ==
    /\ \E input \in PricingInputs :
          costed' = [op |-> "calculateClaudeCost", input |-> input,
                     cost |-> calculateClaudeCost(input.inputTokens,
                                                  input.outputTokens,
                                                  input.cachedTokens, input.model)]
    /\ UNCHANGED <<costNow, costLogs, alerts, exceptCost>>

CallCalculateTavilyCost ==
    /\ \E cached \in BOOLEAN :
          costed' = [op |-> "calculateTavilyCost", cached |-> cached,
                     cost |-> calculateTavilyCost(cached)]
    /\ UNCHANGED <<costNow, costLogs, alerts, exceptCost>>

PricingInit == Idle

PricingNext == CallCalculateClaudeCost \/ CallCalculateTavilyCost

SpecPricing == PricingInit /\ [][PricingNext]_vars

----------------------------------------------------------------------------
(* app/api/graph/route.ts: GET, with APIErrorHandler.handleError           *)

\* "Forbidden origin"
StrForbiddenOrigin ==
    <<"F", "o", "r", "b", "i", "d", "d", "e", "n", " ", "o", "r", "i", "g",
      "i", "n">>

\* "Rate limit exceeded"
StrRateLimitExceeded ==
    <<"R", "a", "t", "e", " ", "l", "i", "m", "i", "t", " ", "e", "x", "c",
      "e", "e", "d", "e", "d">>

\* "Graph data unavailable"
StrGraphDataUnavailable ==
    <<"G", "r", "a", "p", "h", " ", "d", "a", "t", "a", " ", "u", "n", "a",
      "v", "a", "i", "l", "a", "b", "l", "e">>

\* "External service unavailable"
StrExternalServiceUnavailable ==
    <<"E", "x", "t", "e", "r", "n", "a", "l", " ", "s", "e", "r", "v", "i",
      "c", "e", " ", "u", "n", "a", "v", "a", "i", "l", "a", "b", "l", "e">>

\* "Resource not found"
StrResourceNotFound ==
    <<"R", "e", "s", "o", "u", "r", "c", "e", " ", "n", "o", "t", " ", "f",
      "o", "u", "n", "d">>

\* "Invalid request format"
StrInvalidRequestFormat ==
    <<"I", "n", "v", "a", "l", "i", "d", " ", "r", "e", "q", "u", "e", "s",
      "t", " ", "f", "o", "r", "m", "a", "t">>

\* "Internal server error"
StrInternalServerError ==
    <<"I", "n", "t", "e", "r", "n", "a", "l", " ", "s", "e", "r", "v", "e",
      "r", " ", "e", "r", "r", "o", "r">>

\* "fetch"
StrFetch ==
    <<"f", "e", "t", "c", "h">>

\* "ENOENT"
StrENOENT ==
    <<"E", "N", "O", "E", "N", "T">>

\* "File system error"
MsgFileSystemError ==
    <<"F", "i", "l", "e", " ", "s", "y", "s", "t", "e", "m", " ", "e", "r",
      "r", "o", "r">>

\* "ENOENT: no such file or directory, scandir 'content/chapters'"
MsgNoSuchDirectory ==
    <<"E", "N", "O", "E", "N", "T", ":", " ", "n", "o", " ", "s", "u", "c",
      "h", " ", "f", "i", "l", "e", " ", "o", "r", " ", "d", "i", "r", "e",
      "c", "t", "o", "r", "y", ",", " ", "s", "c", "a", "n", "d", "i", "r",
      " ", "'", "c", "o", "n", "t", "e", "n", "t", "/", "c", "h", "a", "p",
      "t", "e", "r", "s", "'">>

\* "fetch failed"
MsgFetchFailed ==
    <<"f", "e", "t", "c", "h", " ", "f", "a", "i", "l", "e", "d">>

\* "Unexpected token } in JSON at position 1"
MsgUnexpectedToken ==
    <<"U", "n", "e", "x", "p", "e", "c", "t", "e", "d", " ", "t", "o", "k",
      "e", "n", " ", "}", " ", "i", "n", " ", "J", "S", "O", "N", " ", "a",
      "t", " ", "p", "o", "s", "i", "t", "i", "o", "n", " ", "1">>

\* "disk full"
MsgThrownText ==
    <<"d", "i", "s", "k", " ", "f", "u", "l", "l">>

\* String.prototype.includes
Includes(s, part) == \E i \in 1..Len(s) : MatchAt(s, i, part)

\* APIErrorHandler.createError(message, status, code)
createError(message, status, code) ==
    [class |-> "APIError", message |-> message, status |-> status, code |-> code]

\* What buildLinkGraph can reject with: an Error, a file system error, a
\* TypeError, a SyntaxError, and a thrown text that is no Error.
BuildErrors ==
    {[class |-> "Error", message |-> MsgFileSystemError],
     [class |-> "Error", message |-> MsgNoSuchDirectory],
     [class |-> "TypeError", message |-> MsgFetchFailed],
     [class |-> "TypeError", message |-> MsgFileSystemError],
     [class |-> "SyntaxError", message |-> MsgUnexpectedToken],
     [class |-> "string", message |-> MsgThrownText]}

\* error instanceof Error
IsError(error) == error.class \in {"Error", "TypeError", "SyntaxError", "APIError"}

NodeEnvs == {"development", "production", "test"}

\* APIErrorHandler.handleError: the status and the JSON body of the
\* response. The details of an APIError are those createError was given:
\* none.
handleError(error, nodeEnv) ==
    IF error.class = "APIError"
    THEN [status |-> error.status,
          body |-> [error |-> error.message, code |-> error.code, details |-> NoText]]
    ELSE IF error.class = "TypeError" /\ Includes(error.message, StrFetch)
    THEN [status |-> 503,
          body |-> [error |-> StrExternalServiceUnavailable, code |-> Undefined,
                    details |-> NoText]]
    ELSE IF IsError(error) /\ Includes(error.message, StrENOENT)
    THEN [status |-> 404,
          body |-> [error |-> StrResourceNotFound, code |-> Undefined,
                    details |-> NoText]]
    ELSE IF error.class = "SyntaxError"
    THEN [status |-> 400,
          body |-> [error |-> StrInvalidRequestFormat, code |-> Undefined,
                    details |-> NoText]]
    ELSE [status |-> 500,
          body |-> [error |-> StrInternalServerError, code |-> Undefined,
                    details |-> IF nodeEnv = "development"
                                THEN Text(error.message) ELSE NoText]]

\* The graphs buildLinkGraph resolves with: pages and forward links.
BuiltGraphs ==
    {[pages |-> <<>>, forwardLinks |-> <<>>],
     [pages |-> <<[k |-> "a", v |-> [slug |-> "a", category |-> "saints",
                                     related |-> <<"b">>, seeAlso |-> <<>>]],
                  [k |-> "b", v |-> [slug |-> "b", category |-> Undefined,
                                     related |-> <<>>, seeAlso |-> <<>>]]>>,
      forwardLinks |-> <<[k |-> "a", v |-> <<"b", "ghost">>],
                         [k |-> "b", v |-> <<>>]>>]}

\* What await buildLinkGraph() gives the handler: a graph, no graph (a
\* mocked build), or a rejection.
BuildOutcomes ==
    {[kind |-> "resolved", graph |-> g] : g \in BuiltGraphs}
        \cup {[kind |-> "null"]}
        \cup {[kind |-> "rejected", error |-> e] : e \in BuildErrors}

\* for (const [from, toSet] of graph.forwardLinks.entries())
\*     for (const to of toSet) edges.push({ from, to })
RECURSIVE Edges(_)
Edges(fl) ==
    IF fl = <<>> THEN <<>>
    ELSE [i \in 1..Len(fl[1].v) |-> [from |-> fl[1].k, to |-> fl[1].v[i]]]
             \o Edges(Tail(fl))

\* The JSON body of the answer to a graph that was built; of a node, its
\* id and category.
GraphBody(graph) ==
    LET pageList == [i \in 1..Len(graph.pages) |-> graph.pages[i].v]
        edges == Edges(graph.forwardLinks)
        categories == SelectSeq([i \in 1..Len(pageList) |-> pageList[i].category],
                                LAMBDA c : c # Undefined /\ c # "")
    IN  [nodes |-> [i \in 1..Len(pageList) |->
                       [id |-> pageList[i].slug, category |-> pageList[i].category]],
         edges |-> edges,
         stats |-> [totalPages |-> Len(pageList), totalLinks |-> Len(edges),
                    categories |-> SetFromList(categories)]]

MaxGetCalls == 61

\* GET /api/graph: the handler inside withErrorHandling.
GET ==
    /\ RequestHead("graph", MaxGetCalls)
    /\ \E outcome \in BuildOutcomes, nodeEnv \in NodeEnvs :
          response' =
              [op |-> "GET", at |-> now, nodeEnv |-> nodeEnv,
               build |-> IF resp'.status = "admitted" THEN outcome
                         ELSE [kind |-> "not called"]]
              @@
              (IF resp'.status = "forbidden"
               THEN handleError(createError(StrForbiddenOrigin, 403, "INVALID_ORIGIN"),
                                nodeEnv)
               ELSE IF resp'.status = "rate limited"
               THEN handleError(createError(StrRateLimitExceeded, 429, "RATE_LIMITED"),
                                nodeEnv)
               ELSE IF outcome.kind = "rejected"
               THEN handleError(outcome.error, nodeEnv)
               ELSE IF outcome.kind = "null"
               THEN handleError(createError(StrGraphDataUnavailable, 503,
                                            "GRAPH_BUILD_FAILED"), nodeEnv)
               ELSE [status |-> 200, body |-> GraphBody(outcome.graph)])
    /\ UNCHANGED exceptRoute

GraphRouteInit == Idle

\* One client sending its requests within one instant.
GraphRouteNext == GET

SpecGraphRoute == GraphRouteInit /\ [][GraphRouteNext]_vars

----------------------------------------------------------------------------
(* app/api/ai/chat/route.ts: POST                                          *)
(*                                                                         *)
(* The handler is taken in two steps: from the request to the fetch of the *)
(* completion, and from the settling of that fetch to the response. One    *)
(* request is handled at a time.                                           *)

\* "javascript:"
StrJavascript ==
    <<"j", "a", "v", "a", "s", "c", "r", "i", "p", "t", ":">>

\* "Missing required field: message"
StrMissingMessage ==
    <<"M", "i", "s", "s", "i", "n", "g", " ", "r", "e", "q", "u", "i", "r",
      "e", "d", " ", "f", "i", "e", "l", "d", ":", " ", "m", "e", "s", "s",
      "a", "g", "e">>

\* "Invalid message format or length"
StrInvalidMessage ==
    <<"I", "n", "v", "a", "l", "i", "d", " ", "m", "e", "s", "s", "a", "g",
      "e", " ", "f", "o", "r", "m", "a", "t", " ", "o", "r", " ", "l", "e",
      "n", "g", "t", "h">>

\* "AI service not configured"
StrAINotConfigured ==
    <<"A", "I", " ", "s", "e", "r", "v", "i", "c", "e", " ", "n", "o", "t",
      " ", "c", "o", "n", "f", "i", "g", "u", "r", "e", "d">>

\* "AI service error"
StrAIServiceError ==
    <<"A", "I", " ", "s", "e", "r", "v", "i", "c", "e", " ", "e", "r", "r",
      "o", "r">>

\* "Invalid AI response format"
StrInvalidAIResponse ==
    <<"I", "n", "v", "a", "l", "i", "d", " ", "A", "I", " ", "r", "e", "s",
      "p", "o", "n", "s", "e", " ", "f", "o", "r", "m", "a", "t">>

\* "haiku"
StrHaiku ==
    <<"h", "a", "i", "k", "u">>

\* "Insufficient credits"
MsgQuota ==
    <<"I", "n", "s", "u", "f", "f", "i", "c", "i", "e", "n", "t", " ", "c",
      "r", "e", "d", "i", "t", "s">>

\* "Kenosis is self-emptying."
MsgAnswer ==
    <<"K", "e", "n", "o", "s", "i", "s", " ", "i", "s", " ", "s", "e", "l",
      "f", "-", "e", "m", "p", "t", "y", "i", "n", "g", ".">>

\* "<What is kenosis?>"
QAngleWhatIs ==
    <<"<", "W", "h", "a", "t", " ", "i", "s", " ", "k", "e", "n", "o", "s",
      "i", "s", "?", ">">>

\* " <> "
QAngles ==
    <<" ", "<", ">", " ">>

\* .replace(/javascript:/gi, ''): the characters outside every occurrence
\* of the text, in any letter case; two occurrences do not overlap.
removeJavascript(s) ==
    LET lower == toLowerCase(s)
        inMatch(k) ==
            \E i \in (k - Len(StrJavascript) + 1)..k : MatchAt(lower, i, StrJavascript)
        marked == [k \in 1..Len(s) |-> [c |-> s[k], keep |-> ~inMatch(k)]]
        kept == SelectSeq(marked, LAMBDA m : m.keep)
    IN  [k \in 1..Len(kept) |-> kept[k].c]

sanitizeInput(input) ==
    trim(removeJavascript(SelectSeq(input, LAMBDA c : c \notin {"<", ">"})))

\* The characters of the model identifiers of MODELS.
ModelIdChars(model) ==
    IF model = MODELS.HAIKU.model
    THEN <<"a", "n", "t", "h", "r", "o", "p", "i", "c", "/", "c", "l", "a",
           "u", "d", "e", "-", "3", ".", "5", "-", "h", "a", "i", "k", "u">>
    ELSE <<"a", "n", "t", "h", "r", "o", "p", "i", "c", "/", "c", "l", "a",
           "u", "d", "e", "-", "s", "o", "n", "n", "e", "t", "-", "4", ".",
           "5">>

\* modelConfig.model.includes('haiku') ? 'haiku' : 'sonnet'
modelType(modelConfig) ==
    IF Includes(ModelIdChars(modelConfig.model), StrHaiku) THEN "haiku" ELSE "sonnet"

\* buildCachedRequest(model, userQuery, maxTokens, pageContext): the body
\* sent to the provider; formatForOpenRouter keeps role, content and the
\* cache_control of the messages that have one. The temperature is 0.7.
buildCachedRequest(model, userQuery, maxTokens, pageContext) ==
    [model |-> model,
     messages |-> buildCachedMessages(userQuery, pageContext, NoText),
     max_tokens |-> maxTokens,
     temperature |-> [tenths |-> 7]]

\* body.message: missing, empty, texts that sanitizeInput changes, a text
\* of 2001 characters, and queries of each complexity.
ChatMessages ==
    {NoText, Text(<<>>), Text(QAngles), Text([i \in 1..2001 |-> "x"]),
     Text(QAngleWhatIs), Text(BodyEleven), Text(QCompareExample)}

\* sanitizeInput over the messages, evaluated once.
SanitizedMessage == [message \in ChatMessages |-> sanitizeInput(message.text)] @@ <<>>

\* The page context the handler gets from body.slug: none (no slug, or the
\* page could not be read) or the start of the page.
ChatPageContexts == {NoText, Text(<<"C", "u", "r", "r", "e", "n", "t">>)}

\* data.usage of a completion: absent, without and with cached tokens.
NoUsage ==
    [prompt_tokens |-> NoNumber, completion_tokens |-> NoNumber,
     cached_tokens |-> NoNumber]

UsageInputs ==
    {NoUsage,
     [prompt_tokens |-> Number(1000), completion_tokens |-> Number(400),
      cached_tokens |-> NoNumber],
     [prompt_tokens |-> Number(1000), completion_tokens |-> Number(400),
      cached_tokens |-> Number(500)]}

\* x || 0
OrZero(n) == IF n.defined THEN n.value ELSE 0

\* How the fetch of the completion settles: it rejects, it answers with a
\* status that is not OK (with or without an error message in its body), its
\* body cannot be parsed, it has no message content, or it is a completion.
FetchOutcomes ==
    {[kind |-> "rejected", error |-> [class |-> "TypeError", message |-> MsgFetchFailed]],
     [kind |-> "not ok", status |-> 500, message |-> NoText],
     [kind |-> "not ok", status |-> 402, message |-> Text(MsgQuota)],
     [kind |-> "unparsable",
      error |-> [class |-> "SyntaxError", message |-> MsgUnexpectedToken]],
     [kind |-> "no content"]}
        \cup {[kind |-> "completion", content |-> MsgAnswer, usage |-> u] :
                 u \in UsageInputs}

\* The response of a request that ends before the provider is called.
Refused(answer) ==
    [pc |-> "done", called |-> FALSE] @@ answer

\* From the request to the fetch.
POST ==
    /\ chat.pc # "fetch"
    /\ Len(costLogs) < MaxLogs
    /\ RequestHead("chat", MaxCalls)
    /\ \E message \in ChatMessages, pageContext \in ChatPageContexts,
          keyed \in BOOLEAN, nodeEnv \in NodeEnvs :
          LET sanitizedMessage == SanitizedMessage[message]
              modelConfig == routeQuery(sanitizedMessage, NoText)
          IN  chat' =
                IF resp'.status = "forbidden"
                THEN Refused(handleError(createError(StrForbiddenOrigin, 403,
                                                     "INVALID_ORIGIN"), nodeEnv))
                ELSE IF resp'.status = "rate limited"
                THEN Refused(handleError(createError(StrRateLimitExceeded, 429,
                                                     "RATE_LIMITED"), nodeEnv))
                ELSE IF ~Truthy(message)
                THEN Refused(handleError(createError(StrMissingMessage, 400,
                                                     "VALIDATION_ERROR"), nodeEnv))
                ELSE IF sanitizedMessage = <<>> \/ Len(sanitizedMessage) > 2000
                THEN Refused(handleError(createError(StrInvalidMessage, 400,
                                                     "INVALID_MESSAGE"), nodeEnv))
                ELSE IF ~keyed
                THEN Refused(handleError(createError(StrAINotConfigured, 503,
                                                     "SERVICE_UNAVAILABLE"), nodeEnv))
                ELSE [pc |-> "fetch", message |-> sanitizedMessage,
                      modelConfig |-> modelConfig,
                      request |-> buildCachedRequest(modelConfig.model,
                                                     sanitizedMessage,
                                                     modelConfig.maxTokens,
                                                     pageContext)]
    /\ UNCHANGED <<costLogs, alerts, costed, exceptHandler>>

\* From the settling of the fetch to the response: logClaudeCall is reached
\* by a completion only.
FetchSettles ==
    /\ chat.pc = "fetch"
    /\ \E outcome \in FetchOutcomes, nodeEnv \in NodeEnvs :
          LET answered(answer) ==
                  [pc |-> "done", called |-> TRUE, message |-> chat.message,
                   modelConfig |-> chat.modelConfig, outcome |-> outcome,
                   logs |-> costLogs] @@ answer
          IN  IF outcome.kind = "completion"
              THEN LET inputTokens == OrZero(outcome.usage.prompt_tokens)
                       outputTokens == OrZero(outcome.usage.completion_tokens)
                       cachedTokens == OrZero(outcome.usage.cached_tokens)
                   IN  /\ LogHead("logClaudeCall",
                                  ClaudeLog([model |-> modelType(chat.modelConfig),
                                             inputTokens |-> inputTokens,
                                             outputTokens |-> outputTokens,
                                             cachedTokens |-> cachedTokens,
                                             cacheHit |-> cachedTokens > 0,
                                             success |-> TRUE,
                                             error |-> Undefined], costNow))
                       /\ chat' = answered([status |-> 200,
                                            body |-> [message |-> outcome.content]])
              ELSE /\ UNCHANGED <<costLogs, alerts, costed>>
                   /\ chat' = answered(
                        IF outcome.kind = "not ok"
                        THEN handleError(
                                 createError(IF Truthy(outcome.message)
                                             THEN outcome.message.text
                                             ELSE StrAIServiceError,
                                             outcome.status, "AI_SERVICE_ERROR"),
                                 nodeEnv)
                        ELSE IF outcome.kind = "no content"
                        THEN handleError(createError(StrInvalidAIResponse, 502,
                                                     "INVALID_AI_RESPONSE"), nodeEnv)
                        ELSE handleError(outcome.error, nodeEnv))
    /\ UNCHANGED <<now, rateVars, exceptHandler>>

ChatRouteInit == Idle

\* One client sending its requests within one instant.
ChatRouteNext == POST \/ FetchSettles

SpecChatRoute == ChatRouteInit /\ [][ChatRouteNext]_vars

----------------------------------------------------------------------------
(* lib/tavily-cache.ts: searchWithTavily                                   *)
(*                                                                         *)
(* A call is taken in two steps: from its start to the fetch of the        *)
(* search, and from the settling of that fetch to its return. Calls        *)
(* overlap: a call can start while others await their fetch. The clock of  *)
(* the cost monitor shows the seconds of the clock of the cache.           *)

MaxSearches == 2

\* The parameters of the calls: two queries that are not similar.
SearchParams == {Plain(QSaloi), Plain(QTradition)}

\* How the fetch of a search settles: with results, with a status that is
\* not OK, or it rejects.
SearchOutcomes ==
    {[kind |-> "results"],
     [kind |-> "not ok", message |-> "Tavily API error: 500"],
     [kind |-> "rejected", message |-> "fetch failed"]}

\* The body of the request sent to api.tavily.com.
SearchRequest(params) ==
    [query |-> params.query,
     max_results |-> IF params.maxResults = 0 THEN 5 ELSE params.maxResults,
     search_depth |-> IF params.searchDepth = Undefined THEN "basic"
                      ELSE params.searchDepth,
     include_domains |-> params.includeDomains,
     exclude_domains |-> params.excludeDomains]

NoResult == [query |-> <<>>, cached |-> FALSE, timestamp |-> 0]

\* A call of searchWithTavily that has run to its first await or to its end:
\* the cache it found and the cache its lookup left, the calls awaiting
\* their fetch when it started, and the position of its log entry.
SearchCall(params, keyed, lookup) ==
    [params |-> params, keyed |-> keyed, at |-> now,
     found |-> cache, left |-> lookup.cache, hit |-> lookup.path # "null",
     inflight |-> {k \in 1..Len(searches) : searches[k].pc = "fetch"},
     pc |-> "fetch", requested |-> FALSE, result |-> NoResult, error |-> "",
     logIndex |-> 0, settledAt |-> 0, foundSettling |-> <<>>,
     leftSettling |-> <<>>]

\* Time passes.
SearchTick ==
    /\ \E t \in Instants :
          /\ t > now
          /\ now' = t
          /\ costNow' = t \div 1000
    /\ UNCHANGED <<cache, ret, costLogs, alerts, costed, searches, requests,
                   exceptSearch>>

\* A search that does not look into the cache.
CheckCacheSkipped(params, entries, t) == [path |-> "null", cache |-> entries]

\* const cached = getCachedResult(params)
CheckCacheFirst(params, entries, t) == getCachedResult(params, entries, t)

\* An entry that records a failed search as a successful one.
FailedSearchLogAsSuccess(message, t) ==
    TavilyLog([cached |-> FALSE, success |-> TRUE, error |-> Undefined], t)

\* The entry the catch block writes: logTavilyCall({cached: false,
\* success: false, error}).
FailedSearchLog(message, t) ==
    TavilyLog([cached |-> FALSE, success |-> FALSE, error |-> message], t)

\* From the start of a call to its return, its throw or its fetch.
SearchStart ==
    /\ Len(searches) < MaxSearches
    /\ \E params \in SearchParams, keyed \in BOOLEAN :
          LET lookup == CheckCacheFirst(params, cache, now)
              call == SearchCall(params, keyed, lookup)
          IN  /\ cache' = lookup.cache
              /\ IF lookup.path # "null"
                 THEN /\ LogHead("logTavilyCall",
                                 TavilyLog([cached |-> TRUE, success |-> TRUE,
                                            error |-> Undefined], costNow))
                      /\ searches' = Append(searches,
                            [call EXCEPT !.pc = "returned",
                                         !.result = lookup.value,
                                         !.logIndex = Len(costLogs) + 1])
                      /\ UNCHANGED requests
                 ELSE IF ~keyed
                 THEN /\ searches' = Append(searches,
                            [call EXCEPT !.pc = "threw",
                                         !.error = "Tavily API key not configured"])
                      /\ UNCHANGED <<costLogs, alerts, costed, requests>>
                 ELSE /\ searches' = Append(searches,
                            [call EXCEPT !.requested = TRUE])
                      /\ requests' = Append(requests, SearchRequest(params))
                      /\ UNCHANGED <<costLogs, alerts, costed>>
    /\ UNCHANGED <<now, ret, costNow, exceptSearch>>

\* From the settling of a call's fetch to its return or its throw.
SearchSettles ==
    /\ \E i \in 1..Len(searches), outcome \in SearchOutcomes :
          /\ searches[i].pc = "fetch"
          /\ LET call == [searches[i] EXCEPT !.settledAt = now,
                                             !.foundSettling = cache,
                                             !.logIndex = Len(costLogs) + 1]
                 result == SearchResult(call.params, now)
             IN  IF outcome.kind = "results"
                 THEN /\ cache' = setCachedResult(call.params, result, cache, now)
                      /\ LogHead("logTavilyCall",
                                 TavilyLog([cached |-> FALSE, success |-> TRUE,
                                            error |-> Undefined], costNow))
                      /\ searches' = [searches EXCEPT ![i] =
                            [call EXCEPT !.pc = "returned", !.result = result,
                                         !.leftSettling = cache']]
                 ELSE /\ cache' = cache
                      /\ LogHead("logTavilyCall",
                                 FailedSearchLog(outcome.message, costNow))
                      /\ searches' = [searches EXCEPT ![i] =
                            [call EXCEPT !.pc = "threw",
                                         !.error = outcome.message,
                                         !.leftSettling = cache]]
    /\ UNCHANGED <<now, ret, costNow, requests, exceptSearch>>

SearchInit == Idle

SearchNext == SearchTick \/ SearchStart \/ SearchSettles

SpecSearch == SearchInit /\ [][SearchNext]_vars

----------------------------------------------------------------------------
(* Claims about the link graph                                             *)

PageValues == {pages[i].v : i \in 1..Len(pages)}

\* C1: in every graph buildLinkGraph returns, for every page p and every
\* target q of forwardLinks[p] (a page or not, p itself included), p is in
\* backlinks[q].
C1_Bidirectional ==
    gpc = "done" =>
        \A p \in MapKeys(forwardLinks) :
            \A q \in Range(MapGet(forwardLinks, p)) :
                /\ MapHas(backlinks, q)
                /\ p \in Range(MapGet(backlinks, q))

\* A returned graph in which a page links to itself and to a slug without
\* a page.
C1_Witness ==
    /\ gpc = "done"
    /\ \E p \in MapKeys(pages) :
          /\ p \in Range(MapGet(forwardLinks, p))
          /\ "ghost" \in Range(MapGet(forwardLinks, p))
          /\ p \in Range(MapGet(backlinks, "ghost"))

\* C21: in every graph buildLinkGraph returns, backlinks is the transpose of
\* forwardLinks (p is in backlinks[q] exactly when q is in forwardLinks[p]),
\* the keys of forwardLinks are the slugs of the pages, and every key of
\* backlinks has at least one source.
C21_Transpose ==
    gpc = "done" =>
        /\ \A q \in MapKeys(backlinks) :
              \A p \in Range(MapGet(backlinks, q)) :
                  /\ MapHas(forwardLinks, p)
                  /\ q \in Range(MapGet(forwardLinks, p))
        /\ \A p \in MapKeys(forwardLinks) :
              \A q \in Range(MapGet(forwardLinks, p)) :
                  MapHas(backlinks, q) /\ p \in Range(MapGet(backlinks, q))
        /\ MapKeys(forwardLinks) = MapKeys(pages)
        /\ \A q \in MapKeys(backlinks) : MapGet(backlinks, q) # <<>>

\* A returned graph of two pages, one of which links to the other and is
\* linked from nowhere, so it has no entry in backlinks.
C21_Witness ==
    /\ gpc = "done"
    /\ MapKeys(pages) = {"a", "b"}
    /\ MapGet(forwardLinks, "a") # <<>>
    /\ "b" \in Range(MapGet(forwardLinks, "a"))
    /\ ~MapHas(backlinks, "a")
    /\ MapHas(backlinks, "b")

\* C2: getBacklinks(graph, slug) returns only values of graph.pages: the
\* pages of the sources in backlinks[slug] that have one, nothing for a
\* source without a page, and the empty list when backlinks has no entry.
C2_BacklinksArePages ==
    view.op = "getBacklinks" =>
        /\ Range(view.result) \subseteq PageValues
        /\ {r.slug : r \in Range(view.result)} =
              IF MapHas(backlinks, view.slug)
              THEN Range(MapGet(backlinks, view.slug)) \cap MapKeys(pages)
              ELSE {}
        /\ ~MapHas(backlinks, view.slug) => view.result = <<>>

\* getBacklinks has dropped a source without a page and kept one with a page.
C2_Witness ==
    /\ view.op = "getBacklinks"
    /\ MapHas(backlinks, view.slug)
    /\ \E s \in Range(MapGet(backlinks, view.slug)) : ~MapHas(pages, s)
    /\ view.result # <<>>

\* No page occurs twice in a list of pages.
NoRepeats(list) == \A i \in 1..Len(list), j \in 1..Len(list) : list[i] = list[j] => i = j

C19_CategoryPages ==
    view.op = "getCategoryPages" =>
        IF ~MapHas(pages, view.slug) THEN view.result = <<>>
        ELSE LET page == MapGet(pages, view.slug)
             IN  /\ page \notin Range(view.result)
                 /\ NoRepeats(view.result)
                 /\ page.category \in {Undefined, ""} => view.result = <<>>
                 /\ page.category \notin {Undefined, ""} =>
                        Range(view.result) =
                            {p \in PageValues :
                                p # page /\ p.category = page.category}

\* The category pages of a page without a category are none, although the
\* other page has no category either.
C19_Witness ==
    /\ view.op = "getCategoryPages"
    /\ MapKeys(pages) = {"a", "b"}
    /\ MapGet(pages, "a").category = Undefined
    /\ MapGet(pages, "b").category = Undefined
    /\ view.result = <<>>

\* The category pages of a page in a category are the other page of that
\* category.
C19_SameCategory ==
    /\ view.op = "getCategoryPages"
    /\ view.slug = "a"
    /\ Len(view.result) = 1
    /\ view.result[1].slug = "b"
    /\ view.result[1].category = "sufis"

----------------------------------------------------------------------------
(* Claims about the chat handler                                           *)

\* C23: when the chat handler has called the provider, the cost log has
\* exactly one entry more than before the call, whose model is the tier
\* routeQuery selected for the message and whose success flag tells whether
\* the call gave a completion; this for failed calls (a status that is not
\* OK, a malformed response) as for successful ones.
C23_LoggedAfterCall ==
    chat.pc = "done" /\ chat.called =>
        /\ Len(costLogs) = Len(chat.logs) + 1
        /\ SubSeq(costLogs, 1, Len(chat.logs)) = chat.logs
        /\ LET entry == costLogs[Len(costLogs)]
           IN  /\ entry.service = "claude"
               /\ entry.model = (IF routeQuery(chat.message, NoText) = MODELS.HAIKU
                                 THEN "haiku" ELSE "sonnet")
               /\ entry.success <=> chat.outcome.kind = "completion"

\* C23 for the calls that gave a completion.
C23_CompletionLogged ==
    chat.pc = "done" /\ chat.called /\ chat.outcome.kind = "completion" =>
        /\ Len(costLogs) = Len(chat.logs) + 1
        /\ SubSeq(costLogs, 1, Len(chat.logs)) = chat.logs
        /\ LET entry == costLogs[Len(costLogs)]
           IN  /\ entry.service = "claude"
               /\ entry.model = (IF routeQuery(chat.message, NoText) = MODELS.HAIKU
                                 THEN "haiku" ELSE "sonnet")
               /\ entry.success

----------------------------------------------------------------------------
(* Claims about searchWithTavily                                           *)

\* Call j started after call i had returned.
StartedAfter(j, i) == i < j /\ i \notin searches[j].inflight

\* Call j repeats call i, which fetched its results, before they expire.
Repeats(j, i) ==
    /\ searches[i].params = searches[j].params
    /\ searches[i].pc = "returned"
    /\ searches[i].requested
    /\ StartedAfter(j, i)
    /\ searches[j].at < searches[i].settledAt + CACHE_TTL

\* A repeated call is served from the cache and sends no request; its log
\* entry is a cache hit of cost 0 and that of the call it repeats costs
\* 0.005 dollars.
RepeatServedFromCache ==
    \A i \in 1..Len(searches), j \in 1..Len(searches) :
        Repeats(j, i) =>
            /\ searches[j].hit
            /\ searches[j].pc = "returned"
            /\ searches[j].result.cached
            /\ ~searches[j].requested
            /\ costLogs[searches[j].logIndex].cacheHit
            /\ costLogs[searches[j].logIndex].estimatedCost = 0
            /\ ~costLogs[searches[i].logIndex].cacheHit
            /\ costLogs[searches[i].logIndex].estimatedCost * 200 = UnitsPerDollar

\* The requests sent are those of the calls that sent one, in their order.
OneRequestEach ==
    Len(requests) = Cardinality({i \in 1..Len(searches) : searches[i].requested})

\* C24, as stated: searchWithTavily sends a request if and only if its
\* lookup misses, and a repeated call is served from the cache.
C24_Original ==
    /\ \A i \in 1..Len(searches) : searches[i].requested <=> ~searches[i].hit
    /\ OneRequestEach
    /\ RepeatServedFromCache

\* C24, amended: searchWithTavily sends a request if and only if its lookup
\* misses and TAVILY_API_KEY is set; a call whose lookup misses without the
\* key throws before any request. A repeated call is served from the cache.
C24_Amended ==
    /\ \A i \in 1..Len(searches) :
          searches[i].requested <=> (~searches[i].hit /\ searches[i].keyed)
    /\ \A i \in 1..Len(searches) :
          ~searches[i].hit /\ ~searches[i].keyed =>
              searches[i].pc = "threw" /\ searches[i].logIndex = 0
    /\ OneRequestEach
    /\ RepeatServedFromCache

\* A search that fetched its results at the end of the first week has been
\* repeated a millisecond later and served from the cache: one request was
\* sent and two entries were logged.
C24_Witness ==
    /\ Len(searches) = 2
    /\ Repeats(2, 1)
    /\ searches[1].settledAt = CACHE_TTL
    /\ searches[2].at = CACHE_TTL + 1
    /\ searches[2].result = [query |-> searches[1].params.query, cached |-> TRUE,
                             timestamp |-> CACHE_TTL]
    /\ Len(requests) = 1
    /\ Len(costLogs) = 2

\* The log entries of the calls i and j that have a cost.
CostlyEntries(i, j) ==
    {n \in {searches[i].logIndex, searches[j].logIndex} :
        n > 0 /\ costLogs[n].estimatedCost > 0}

\* C27: of two calls of searchWithTavily with the same parameters, the
\* second of which starts while the first awaits its fetch, at most one
\* sends a request and at most one leaves a log entry with a cost: the
\* second is served from the cache.
C27_OneRequestForTwo ==
    \A i \in 1..Len(searches), j \in 1..Len(searches) :
        /\ i < j
        /\ searches[i].params = searches[j].params
        /\ i \in searches[j].inflight
        => /\ ~(searches[i].requested /\ searches[j].requested)
           /\ Cardinality(CostlyEntries(i, j)) <= 1
           /\ searches[j].hit

\* The cache a lookup at time t leaves of the cache it found: the entries
\* found, in their order, less some whose expiresAt < t.
LessExpired(found, left, t) ==
    \E kept \in SUBSET (1..Len(found)) :
        /\ left = SelectSeq(found, LAMBDA e : \E i \in kept : found[i] = e)
        /\ \A i \in (1..Len(found)) \ kept : found[i].v.expiresAt < t

\* Every entry of the cost log was written by one call.
OneEntryEach ==
    \A n \in 1..Len(costLogs) :
        Cardinality({i \in 1..Len(searches) : searches[i].logIndex = n}) = 1

\* A call whose fetch failed has thrown the error of the failure and has
\* written one log entry, with success = false.
FailureLogged(i) ==
    /\ searches[i].error \in {o.message : o \in SearchOutcomes \ {[kind |-> "results"]}}
    /\ searches[i].logIndex \in 1..Len(costLogs)
    /\ costLogs[searches[i].logIndex].service = "tavily"
    /\ ~costLogs[searches[i].logIndex].success
    /\ costLogs[searches[i].logIndex].error = searches[i].error
    /\ OneEntryEach

\* C29, as stated: a call of searchWithTavily whose fetch fails rethrows,
\* leaves the cache as it was before the call and appends one log entry with
\* success = false; a call without the API key throws and does not touch
\* the cache.
C29_Original ==
    \A i \in 1..Len(searches) :
        searches[i].pc = "threw" =>
            /\ searches[i].left = searches[i].found
            /\ searches[i].requested =>
                  /\ searches[i].leftSettling = searches[i].foundSettling
                  /\ FailureLogged(i)

\* C29, amended: a call of searchWithTavily whose fetch fails rethrows,
\* stores nothing and appends one log entry with success = false; a call
\* without the API key throws and writes nothing. Either call has first
\* looked into the cache, and that lookup, missing the exact-match path,
\* has removed the entries with expiresAt < now its scan came to: the
\* cache is as before the call less such entries, and nothing else of it
\* is changed.
C29_Amended ==
    \A i \in 1..Len(searches) :
        searches[i].pc = "threw" =>
            /\ LessExpired(searches[i].found, searches[i].left, searches[i].at)
            /\ searches[i].requested =>
                  /\ searches[i].leftSettling = searches[i].foundSettling
                  /\ FailureLogged(i)
            /\ ~searches[i].requested =>
                  /\ ~searches[i].keyed
                  /\ searches[i].logIndex = 0
                  /\ searches[i].error = "Tavily API key not configured"

\* A search made a millisecond after the results of an earlier one expired
\* has failed with status 500: its lookup has removed the expired entry,
\* the cache is empty and the log has the entry of the failure.
C29_Witness ==
    /\ Len(searches) = 2
    /\ searches[1].pc = "returned"
    /\ searches[1].settledAt = 0
    /\ searches[2].at = CACHE_TTL + 1
    /\ searches[2].pc = "threw"
    /\ searches[2].error = "Tavily API error: 500"
    /\ Len(searches[2].found) = 1
    /\ searches[2].left = <<>>
    /\ cache = <<>>
    /\ Len(costLogs) = 2
    /\ ~costLogs[2].success

----------------------------------------------------------------------------
(* Claims about the research cache                                         *)

\* The entries the last call found in the cache.
Before == Range(ret.cache)

\* C3: getCachedResult never returns data from an entry with
\* expiresAt <= now, on either path, and returns the entry under the key of
\* the parameters when it has now < expiresAt.
C3_ValidIffLive ==
    ret.op = "get" =>
        /\ ret.path # "null" => MapGet(ret.cache, ret.key).expiresAt > ret.at
        /\ \A e \in Before :
               e.k = CacheKeyOf[ret.params] /\ ret.at < e.v.expiresAt =>
                   /\ ret.path = "exact"
                   /\ ret.value = [e.v.data EXCEPT !.cached = TRUE]

\* C4, as stated: an entry is not returned by a lookup later than its
\* expiry, and that lookup removes it, whatever else the cache holds.
C4_Original ==
    ret.op = "get" /\ ret.at = now =>
        \A e \in Before :
            e.v.expiresAt < ret.at =>
                /\ ret.path # "null" => ret.key # e.k
                /\ ~MapHas(cache, e.k)

\* The scan of a lookup reaches position i of the cache it found: the
\* exact-match path missed and no earlier entry that is not skipped as
\* expired is similar to the query.
ScanReaches(i) ==
    /\ ret.path # "exact"
    /\ \A j \in 1..(i - 1) :
           \/ ret.cache[j].v.expiresAt < ret.at
           \/ ~IsSimilar(ret.params.query, ret.cache[j].v.data.query)

\* C4, amended: an entry is never returned by a lookup later than its
\* expiry; the lookup removes it exactly when its similarity scan reaches
\* the entry, and otherwise leaves it in the cache; so a lookup that finds
\* no other entry in the cache removes it. A lookup removes nothing else.
C4_Amended ==
    ret.op = "get" /\ ret.at = now =>
        /\ \A i \in 1..Len(ret.cache) :
               LET e == ret.cache[i]
               IN  IF e.v.expiresAt < ret.at
                   THEN /\ ret.path # "null" => ret.key # e.k
                        /\ ~MapHas(cache, e.k) <=> ScanReaches(i)
                   ELSE MapHas(cache, e.k) /\ MapGet(cache, e.k) = e.v
        /\ Len(ret.cache) = 1 /\ ret.cache[1].v.expiresAt < ret.at => cache = <<>>

\* A lookup later than an entry's expiry has returned an earlier, live entry
\* through the similarity path and left the expired entry in the cache.
C4_Witness ==
    /\ ret.op = "get"
    /\ ret.at = now
    /\ ret.path = "similar"
    /\ \E e \in Before : e.v.expiresAt < ret.at /\ MapHas(cache, e.k)

\* The words of a query in order, letter case and whitespace set aside.
WordList(query) ==
    SelectSeq(splitWhitespace(toLowerCase(query)), LAMBDA w : w # <<>>)

\* Two parameter objects differ in the letter case and the whitespace of the
\* query only.
CaseWhitespaceVariants(key1, query1, key2, query2) ==
    /\ WordList(query1) = WordList(query2)
    /\ [key1 EXCEPT !.query = <<>>] = [key2 EXCEPT !.query = <<>>]

\* C5, as stated: a lookup whose parameters differ from those of a live
\* entry in letter case and whitespace only hits through the exact-match
\* path.
C5_Original ==
    ret.op = "get" =>
        \A e \in Before :
            /\ CaseWhitespaceVariants(CacheKeyOf[ret.params], ret.params.query,
                                      e.k, e.v.data.query)
            /\ ret.at < e.v.expiresAt
            => ret.path = "exact"

\* C5, amended: getCacheKey lower-cases the query and trims its ends, so the
\* keys of two such variants are equal iff the queries are equal after
\* lower-casing and trimming; "Byzantine saloi" and "byzantine  SALOI" have
\* different keys. The lookup takes the exact-match path iff a live entry is
\* stored under its own key; without one, and when neither query starts or
\* ends with whitespace, it hits through the similarity path with
\* cached = true, the word sets being equal.
C5_Amended ==
    /\ getCacheKey(Plain(QSaloi)) # getCacheKey(Plain(QSaloiVariant))
    /\ getCacheKey(Plain(QSaloi)) = getCacheKey(Plain(QSaloiPadded))
    /\ ret.op = "get" =>
        \A e \in Before :
            /\ CaseWhitespaceVariants(CacheKeyOf[ret.params], ret.params.query,
                                      e.k, e.v.data.query)
            /\ ret.at < e.v.expiresAt
            => /\ e.k = CacheKeyOf[ret.params]
                    <=> trim(toLowerCase(ret.params.query))
                            = trim(toLowerCase(e.v.data.query))
               /\ ret.path = "exact"
                    <=> \E x \in Before :
                            x.k = CacheKeyOf[ret.params] /\ ret.at < x.v.expiresAt
               /\ /\ ret.path # "exact"
                  /\ trim(ret.params.query) = ret.params.query
                  /\ trim(e.v.data.query) = e.v.data.query
                  => /\ ret.path = "similar"
                     /\ ret.value.cached
                     /\ Words(ret.value.query) = Words(ret.params.query)

\* "byzantine  SALOI" is looked up while only "Byzantine saloi" is stored,
\* and the stored result comes back through the similarity path.
C5_Witness ==
    /\ ret.op = "get"
    /\ ret.params = Plain(QSaloiVariant)
    /\ Len(ret.cache) = 1
    /\ ret.cache[1].v.data.query = QSaloi
    /\ ret.cache[1].k = getCacheKey(Plain(QSaloi))
    /\ ret.path = "similar"
    /\ ret.value = [query |-> QSaloi, cached |-> TRUE, timestamp |-> 0]

\* C6, as stated: looking up "Byzantine holy fools" while a live entry for
\* "Byzantine saloi holy fools tradition" exists, and none under the exact
\* key, returns that entry with cached = true through the similarity path.
C6_Original ==
    /\ ret.op = "get"
    /\ ret.params = Plain(QHolyFools)
    /\ ~MapHas(ret.cache, CacheKeyOf[ret.params])
    /\ \E e \in Before : e.v.data.query = QTradition /\ ret.at < e.v.expiresAt
    => /\ ret.path = "similar"
       /\ ret.value.query = QTradition
       /\ ret.value.cached

\* The Jaccard quotient of the word sets of two queries is at least 0.85.
JaccardAtLeastThreshold(query1, query2) ==
    LET inter == {w \in Words(query1) : w \in Words(query2)}
        union == Words(query1) \cup Words(query2)
    IN  Cardinality(inter) * 20 >= 17 * Cardinality(union)

\* C6, amended: the two queries share 3 of 5 words, a Jaccard similarity of
\* 0.6, so that lookup does not return that entry. The similarity path
\* returns the first entry in insertion order that is not skipped as
\* expired and whose stored query has Jaccard similarity >= 0.85 with the
\* query, with cached = true, and null when there is none.
C6_Amended ==
    /\ Cardinality(Words(QHolyFools) \cap Words(QTradition)) = 3
    /\ Cardinality(Words(QHolyFools) \cup Words(QTradition)) = 5
    /\ ret.op = "get" /\ ret.path # "exact" =>
        LET live == {i \in 1..Len(ret.cache) :
                        /\ ret.cache[i].v.expiresAt >= ret.at
                        /\ JaccardAtLeastThreshold(ret.params.query,
                                                   ret.cache[i].v.data.query)}
        IN  /\ \A i \in live : \/ ret.cache[i].v.data.query # QTradition
                               \/ ret.params.query # QHolyFools
            /\ IF live = {} THEN ret.path = "null"
               ELSE LET first == CHOOSE i \in live : \A j \in live : i <= j
                    IN  /\ ret.path = "similar"
                        /\ ret.key = ret.cache[first].k
                        /\ ret.value = [ret.cache[first].v.data EXCEPT !.cached = TRUE]

\* "Byzantine holy fools" is looked up while only "Byzantine saloi holy fools
\* tradition" is stored, live, and the lookup returns null.
C6_Witness ==
    /\ ret.op = "get"
    /\ ret.params = Plain(QHolyFools)
    /\ Len(ret.cache) = 1
    /\ ret.cache[1].v.data.query = QTradition
    /\ ret.at < ret.cache[1].v.expiresAt
    /\ ret.path = "null"

\* A lookup of "a b c d e f g" has returned the entry of "a b c d e f", which
\* shares 6 of its 7 words, through the similarity path.
C6_SimilarHit ==
    /\ ret.op = "get"
    /\ ret.params = Plain(QSeven)
    /\ ret.path = "similar"
    /\ ret.value.query = QSix

\* C26: a result getCachedResult returns was stored under the maxResults,
\* searchDepth, includeDomains and excludeDomains of the lookup's parameters
\* (defaults filled in, domains sorted), on either path.
C26_HitRespectsParams ==
    ret.op = "get" /\ ret.path # "null" =>
        [ret.key EXCEPT !.query = <<>>]
            = [CacheKeyOf[ret.params] EXCEPT !.query = <<>>]

\* C20: after setCachedResult(params, r) at time t the cache holds one entry
\* under getCacheKey(params), with data r and expiresAt = t + 7 days, also
\* when an entry was stored under that key before, and the entries under
\* the other keys are as they were.
C20_SetOverwrites ==
    ret.op = "set" =>
        LET key == getCacheKey(ret.params)
        IN  /\ Cardinality({i \in 1..Len(cache) : cache[i].k = key}) = 1
            /\ MapGet(cache, key) =
                   [data |-> SearchResult(ret.params, ret.at),
                    expiresAt |-> ret.at + 7 * 24 * 60 * 60 * 1000]
            /\ SelectSeq(cache, LAMBDA e : e.k # key)
                   = SelectSeq(ret.cache, LAMBDA e : e.k # key)

\* setCachedResult has replaced an entry stored earlier under the same key
\* by a differently written query, with a later expiry, beside an entry
\* under another key.
C20_Witness ==
    /\ ret.op = "set"
    /\ Len(ret.cache) = 2
    /\ MapHas(ret.cache, getCacheKey(ret.params))
    /\ MapGet(ret.cache, getCacheKey(ret.params)).data.query # ret.params.query
    /\ MapGet(ret.cache, getCacheKey(ret.params)).expiresAt < ret.at + CACHE_TTL
    /\ MapGet(cache, getCacheKey(ret.params)).data.query = ret.params.query
    /\ MapGet(cache, getCacheKey(ret.params)).expiresAt = ret.at + CACHE_TTL

\* C30: getCachedResult leaves the cache it found, in its order, less some
\* entries with expiresAt < now: no entry is added and none has its data or
\* its expiresAt changed. The value of a hit has cached = true while the
\* entry it comes from stays as it was stored.
C30_LookupFrame ==
    ret.op = "get" /\ ret.at = now =>
        /\ \E kept \in SUBSET (1..Len(ret.cache)) :
              /\ cache = SelectSeq(ret.cache, LAMBDA e :
                            \E i \in kept : ret.cache[i] = e)
              /\ \A i \in (1..Len(ret.cache)) \ kept :
                    ret.cache[i].v.expiresAt < ret.at
        /\ ret.path # "null" =>
              /\ ret.value.cached
              /\ MapHas(cache, ret.key)
              /\ MapGet(cache, ret.key) = MapGet(ret.cache, ret.key)

\* A lookup has hit an entry stored with cached = false and has removed an
\* expired entry on its way: the hit entry is in the cache as it was.
C30_Witness ==
    /\ ret.op = "get"
    /\ ret.at = now
    /\ ret.path = "similar"
    /\ Len(ret.cache) = 2
    /\ Len(cache) = 1
    /\ ~cache[1].v.data.cached
    /\ ret.value.cached

----------------------------------------------------------------------------
(* Claims about the rate limiter                                           *)

\* The calls of checkRateLimit for an endpoint that returned true at an
\* instant t with from <= t < to.
GrantedIn(endpoint, from, to) ==
    SumOver([t \in RateInstants |-> calls[endpoint][t].granted],
            {t \in RateInstants : from <= t /\ t < to})

\* C7: for one client and the chat endpoint (limit 20 per 60000 ms), in
\* every time interval of the window's length at most 20 calls of
\* checkRateLimit return true.
C7_WindowLimit ==
    \A s \in RateInstants : GrantedIn("chat", s, s + WINDOW_MS) <= CHAT_LIMIT

\* The requests the client has made to an endpoint, at any time, that got
\* as far as the limiter.
MadeTo(endpoint) ==
    SumOver([t \in RateInstants |-> calls[endpoint][t].made], RateInstants)

\* C8: a request is refused by the limiter only when the client has made
\* at least the endpoint's own limit of earlier requests to that endpoint;
\* requests to the other endpoints do not count.
C8_PerEndpoint ==
    resp.endpoint # "none" /\ resp.status = "rate limited" =>
        MadeTo(resp.endpoint) - 1 >= LimitOf(resp.endpoint)

\* C25: a call of checkRateLimit made later than the resetTime of the
\* caller's window (the time of the window's first request plus windowMs)
\* returns true and starts a new window with count 1.
C25_WindowReset ==
    [][calls' # calls =>
          \A id \in ClientIPs :
              MapHas(requestCounts, id) /\ now > MapGet(requestCounts, id).resetTime
                  => /\ resp'.status = "admitted"
                     /\ MapGet(requestCounts', id) =
                            [count |-> 1, resetTime |-> now + WINDOW_MS]]_vars

----------------------------------------------------------------------------
(* Claims about the model router                                           *)

\* C9: routeQuery returns MODELS.HAIKU iff analyzeQueryComplexity is simple
\* and MODELS.SONNET for medium and for complex, and getModelRecommendation
\* reports the complexity of analyzeQueryComplexity with that same model.
C9_RoutingPolicy ==
    LET complexity == ComplexityOf[routed.input]
        profile == IF complexity = "simple" THEN MODELS.HAIKU ELSE MODELS.SONNET
    IN  /\ MODELS.HAIKU # MODELS.SONNET
        /\ routed.op = "routeQuery" =>
               /\ routed.model = MODELS.HAIKU <=> complexity = "simple"
               /\ complexity \in {"medium", "complex"} => routed.model = MODELS.SONNET
        /\ routed.op = "getModelRecommendation" =>
               /\ routed.recommendation.complexity = complexity
               /\ routed.recommendation.model = profile

\* A query of medium complexity has been routed to Sonnet.
C9_Witness ==
    /\ routed.op = "routeQuery"
    /\ ComplexityOf[routed.input] = "medium"
    /\ routed.model = MODELS.SONNET

\* The number of pieces query.split(/\s+/) yields.
WordCount(query) == Len(splitWhitespace(query))

\* C10: a query whose lower-cased, trimmed text matches a simple pattern is
\* simple, whatever complex indicator it matches, however many words it has
\* and whatever text is selected; one that matches no simple pattern and
\* matches a complex indicator is complex, whatever its length.
C10_FirstMatchWins ==
    routed.op = "analyzeQueryComplexity" =>
        LET lowerQuery == trim(toLowerCase(routed.input.query))
        IN  /\ MatchesSimple(lowerQuery) => routed.complexity = "simple"
            /\ ~MatchesSimple(lowerQuery) /\ MatchesComplex(lowerQuery)
                   => routed.complexity = "complex"

\* A query that starts with "what is", contains "in depth", has more than 20
\* words and comes with more than 100 selected characters is simple.
C10_Witness ==
    /\ routed.op = "analyzeQueryComplexity"
    /\ MatchesSimple(trim(toLowerCase(routed.input.query)))
    /\ MatchesComplex(trim(toLowerCase(routed.input.query)))
    /\ WordCount(routed.input.query) > 20
    /\ hasSelectedText(routed.input.selectedText)
    /\ routed.complexity = "simple"

\* A query of more than 20 words that matches no simple pattern and matches
\* a complex indicator is complex.
C10_ComplexLong ==
    /\ routed.op = "analyzeQueryComplexity"
    /\ ~MatchesSimple(trim(toLowerCase(routed.input.query)))
    /\ MatchesComplex(trim(toLowerCase(routed.input.query)))
    /\ WordCount(routed.input.query) > 20
    /\ routed.complexity = "complex"

\* The number of words of a query: its maximal runs of non-whitespace.
NumberOfWords(query) ==
    Len(SelectSeq(splitWhitespace(query), LAMBDA w : w # <<>>))

\* C11: a query that matches no simple pattern and no complex indicator is
\* medium when it has more than 20 words or comes with more than 100
\* selected characters, otherwise simple when it has at most 10 words, and
\* otherwise medium.
C11_LengthHeuristics ==
    routed.op = "analyzeQueryComplexity" =>
        LET lowerQuery == trim(toLowerCase(routed.input.query))
            words == NumberOfWords(routed.input.query)
        IN  ~MatchesSimple(lowerQuery) /\ ~MatchesComplex(lowerQuery) =>
                routed.complexity =
                    IF words > 20 \/ hasSelectedText(routed.input.selectedText)
                    THEN "medium"
                    ELSE IF words <= 10 THEN "simple" ELSE "medium"

----------------------------------------------------------------------------
(* Claims about the prompt cache                                           *)

\* A message is the page-context segment, the selected-text segment.
IsPageContextSegment(msg) ==
    msg.role = "user" /\ msg.content # <<>> /\ MatchAt(msg.content, 1, StrPageContext)

IsSelectedTextSegment(msg) ==
    msg.role = "user" /\ msg.content # <<>> /\ MatchAt(msg.content, 1, StrSelectedText)

\* C12: buildCachedMessages returns the system prompt, marked cacheable,
\* first and the user query, unmarked, last; between them the page-context
\* segment, marked cacheable and present only if a page context was
\* supplied, and then the selected-text segment, unmarked and present only
\* if a selected text was supplied; so every cacheable segment comes before
\* every segment that is not.
C12_SegmentOrder ==
    built.op = "buildCachedMessages" =>
        LET msgs == built.messages
            n == Len(msgs)
            input == built.input
            contexts == {i \in 2..(n - 1) : IsPageContextSegment(msgs[i])}
            selections == {i \in 2..(n - 1) : IsSelectedTextSegment(msgs[i])}
        IN  /\ n >= 2
            /\ msgs[1] = [role |-> "system", content |-> CACHED_SYSTEM_PROMPT,
                          cache_control |-> Ephemeral]
            /\ msgs[n] = [role |-> "user", content |-> input.userQuery,
                          cache_control |-> Undefined]
            /\ contexts \cup selections = 2..(n - 1)
            /\ Cardinality(contexts) <= 1
            /\ Cardinality(selections) <= 1
            /\ contexts # {} => input.pageContext.defined
            /\ selections # {} => input.selectedText.defined
            /\ Truthy(input.pageContext) => contexts # {}
            /\ Truthy(input.selectedText) =>
                   \E i \in selections :
                       msgs[i].content =
                           StrSelectedText \o input.selectedText.text \o StrQuestion
            /\ \A i \in contexts : msgs[i].cache_control = Ephemeral
            /\ \A i \in selections : msgs[i].cache_control = Undefined
            /\ \A i \in contexts, j \in selections : i < j
            /\ \A i \in 1..n, j \in 1..n :
                   msgs[i].cache_control = Ephemeral
                       /\ msgs[j].cache_control = Undefined => i < j

\* A call with a page context and a selected text has returned four
\* segments, the second cacheable and the third not.
C12_Witness ==
    /\ built.op = "buildCachedMessages"
    /\ Truthy(built.input.pageContext)
    /\ Truthy(built.input.selectedText)
    /\ Len(built.messages) = 4
    /\ IsPageContextSegment(built.messages[2])
    /\ built.messages[2].cache_control = Ephemeral
    /\ IsSelectedTextSegment(built.messages[3])
    /\ built.messages[3].cache_control = Undefined

\* The page context a call has embedded: the content of the page-context
\* segment after its heading.
EmbeddedContext ==
    LET content == built.messages[2].content
    IN  SubSeq(content, Len(StrPageContext) + 1, Len(content))

\* C13: the page context buildCachedMessages embeds has at most 2000
\* characters: a context of at most 2000 characters is embedded unchanged,
\* nothing appended, and a longer one is replaced by its first 1997
\* characters followed by "...", 2000 characters in all; so the embedded
\* text differs from the source iff the source exceeds the budget.
C13_ContextBudget ==
    built.op = "buildCachedMessages" /\ Truthy(built.input.pageContext) =>
        LET source == built.input.pageContext.text
        IN  /\ IsPageContextSegment(built.messages[2])
            /\ Len(EmbeddedContext) <= 2000
            /\ Len(source) <= 2000 => EmbeddedContext = source
            /\ Len(source) > 2000 =>
                   /\ EmbeddedContext = SubSeq(source, 1, 1997) \o <<".", ".", ".">>
                   /\ Len(EmbeddedContext) = 2000
            /\ EmbeddedContext # source <=> Len(source) > 2000

\* A page context of 2001 characters has been embedded as 2000 characters
\* that end in "...".
C13_Witness ==
    /\ built.op = "buildCachedMessages"
    /\ Truthy(built.input.pageContext)
    /\ Len(built.input.pageContext.text) = 2001
    /\ Len(EmbeddedContext) = 2000
    /\ SubSeq(EmbeddedContext, 1998, 2000) = StrEllipsis
    /\ EmbeddedContext[1997] = built.input.pageContext.text[1997]

----------------------------------------------------------------------------
(* Claims about the cost monitor                                           *)

\* C14: with cachedTokens = 0 and a fixed model, calculateClaudeCost of
\* doubled token counts is twice the cost, and the cost of the sums of two
\* pairs of token counts is the sum of their costs.
C14_LinearAdditive ==
    costed.op = "calculateClaudeCost" /\ costed.input.cachedTokens = 0 =>
        LET i == costed.input.inputTokens
            o == costed.input.outputTokens
            m == costed.input.model
        IN  /\ calculateClaudeCost(2 * i, 2 * o, 0, m) = 2 * costed.cost
            /\ \A i2 \in TokenCounts, o2 \in TokenCounts :
                   calculateClaudeCost(i + i2, o + o2, 0, m)
                       = costed.cost + calculateClaudeCost(i2, o2, 0, m)

\* The cost of 500 input and 1000 output tokens of Sonnet, without cached
\* tokens, has been calculated: 660000 units, 0.0165 dollars, half the cost
\* of 1000 and 2000.
C14_Witness ==
    /\ costed.op = "calculateClaudeCost"
    /\ costed.input = [inputTokens |-> 500, outputTokens |-> 1000,
                       cachedTokens |-> 0, model |-> "sonnet"]
    /\ costed.cost = 660000
    /\ calculateClaudeCost(1000, 2000, 0, "sonnet") = 2 * costed.cost

\* C28: for either model and all token counts that are natural numbers,
\* calculateClaudeCost returns a cost that is not negative.
C28_CostNotNegative ==
    costed.op = "calculateClaudeCost" => costed.cost >= 0

\* The operations that call logAPICall.
LogOps == {"logAPICall", "logClaudeCall", "logTavilyCall"}

\* C15: every logAPICall appends its entry at the end of the log, whatever
\* the daily total; cleanupOldLogs removes the entries with
\* timestamp < now - 30 days and keeps the others in their order; no other
\* step changes the log.
C15_AppendOnly ==
    [][IF costed' = costed THEN costLogs' = costLogs
       ELSE CASE costed'.op \in LogOps ->
                     costLogs' = Append(costLogs, costed'.log)
              [] costed'.op = "cleanupOldLogs" ->
                     costLogs' = SelectSeq(costLogs, LAMBDA entry :
                                     ~(entry.timestamp < costNow - 30 * oneDay))
              [] OTHER -> costLogs' = costLogs]_vars

\* A call of logAPICall made when the cost of the last 24 hours was already
\* above the budget has appended its entry.
C15_Witness ==
    /\ costed.op \in LogOps
    /\ costNow = costed.at
    /\ calculateDailyCost(costed.logs, costed.at)
           > DAILY_BUDGET_THRESHOLD * UnitsPerDollar
    /\ costLogs = Append(costed.logs, costed.log)

\* The sum of estimatedCost over the entries of logs with a timestamp in the
\* 24 hours up to t.
CostOfLastDay(logs, t) ==
    SumOver([i \in 1..Len(logs) |-> logs[i].estimatedCost],
            {i \in 1..Len(logs) :
                t - oneDay <= logs[i].timestamp /\ logs[i].timestamp <= t})

\* C16: a call of logAPICall emits one budget alert if the cost of the
\* entries of the last 24 hours, the new entry among them when its
\* timestamp is in that range, is greater than 3 dollars, and none
\* otherwise.
C16_AlertIffOverBudget ==
    costed.op \in LogOps =>
        LET total == CostOfLastDay(Append(costed.logs, costed.log), costed.at)
        IN  IF total > 3 * UnitsPerDollar
            THEN /\ Len(alerts) = Len(costed.alerts) + 1
                 /\ SubSeq(alerts, 1, Len(costed.alerts)) = costed.alerts
                 /\ alerts[Len(alerts)].actualCost = total
            ELSE alerts = costed.alerts

\* A call costing 0.005 dollars, made after one of exactly 3 dollars that
\* raised no alert, has raised one.
C16_Witness ==
    /\ costed.op = "logTavilyCall"
    /\ costed.alerts = <<>>
    /\ CostOfLastDay(costed.logs, costed.at) = 3 * UnitsPerDollar
    /\ CostOfLastDay(costLogs, costed.at) = 3 * UnitsPerDollar + 200000
    /\ Len(alerts) = 1

----------------------------------------------------------------------------
(* Claims about the graph route                                            *)

\* The entries of logs dated from startTime to endTime, both included.
InPeriod(logs, startTime, endTime) ==
    {i \in 1..Len(logs) :
        logs[i].timestamp >= startTime /\ logs[i].timestamp <= endTime}

\* The sum of the costs of the entries of logs at the positions of S.
RECURSIVE CostAt(_, _)
CostAt(logs, S) ==
    IF S = {} THEN 0
    ELSE LET i == CHOOSE x \in S : TRUE
         IN  logs[i].estimatedCost + CostAt(logs, S \ {i})

\* C22: calculateCostForPeriod(start, end) summarises the entries with
\* start <= timestamp <= end: callCount is their number, totalCost the sum
\* of their costs and equal to claudeCost + tavilyCost; for entries written
\* by logClaudeCall and logTavilyCall the three breakdown costs add up to
\* totalCost and the three breakdown counts to callCount; cacheHitRate is
\* between 0 and 1, and 0 for an empty period.
C22_PeriodSummary ==
    costed.op = "calculateCostForPeriod" =>
        LET r == costed.result
            S == InPeriod(costed.logs, costed.startTime, costed.endTime)
            b == r.breakdown
        IN  /\ r.callCount = Cardinality(S)
            /\ r.totalCost = CostAt(costed.logs, S)
            /\ r.totalCost = r.claudeCost + r.tavilyCost
            /\ (\A i \in S :
                    \/ costed.logs[i] = ClaudeLog(
                          [model |-> costed.logs[i].model,
                           inputTokens |-> costed.logs[i].inputTokens.value,
                           outputTokens |-> costed.logs[i].outputTokens.value,
                           cachedTokens |-> costed.logs[i].cachedTokens.value,
                           cacheHit |-> costed.logs[i].cacheHit,
                           success |-> costed.logs[i].success,
                           error |-> costed.logs[i].error],
                          costed.logs[i].timestamp)
                    \/ costed.logs[i] = TavilyLog(
                          [cached |-> costed.logs[i].cacheHit,
                           success |-> costed.logs[i].success,
                           error |-> costed.logs[i].error],
                          costed.logs[i].timestamp))
               => /\ r.totalCost = b.haiku.cost + b.sonnet.cost + b.tavily.cost
                  /\ r.callCount = b.haiku.calls + b.sonnet.calls + b.tavily.calls
            /\ r.cacheHitRate.of > 0
            /\ r.cacheHitRate.hits >= 0
            /\ r.cacheHitRate.hits <= r.cacheHitRate.of
            /\ S = {} => r.cacheHitRate.hits = 0

\* A summary of the period that begins and ends at the instant of one
\* Claude entry of a log of two: that entry alone is counted.
C22_Witness ==
    /\ costed.op = "calculateCostForPeriod"
    /\ Len(costed.logs) = 2
    /\ costed.startTime = costed.endTime
    /\ costed.logs[2].timestamp = costed.endTime
    /\ costed.logs[1].timestamp < costed.startTime
    /\ costed.logs[2].service = "claude"
    /\ costed.result.callCount = 1
    /\ costed.result.totalCost > 0
    /\ costed.result.breakdown.sonnet.calls = 1

\* C17: whenever buildLinkGraph rejects, GET /api/graph answers with status
\* 500 and a body whose error field is "Failed to build graph".
C17_BuildFailure ==
    response.op = "GET" /\ response.build.kind = "rejected" =>
        /\ response.status = 500
        /\ response.body.error =
               <<"F", "a", "i", "l", "e", "d", " ", "t", "o", " ",
                 "b", "u", "i", "l", "d", " ", "g", "r", "a", "p", "h">>

============================================================================
